---- MODULE Spec2Model ----
(***************************************************************************)
(* A model of asyncftp's FTPClientConnection (src/asyncftp/connection.py)  *)
(* and FTPPacketizer (src/asyncftp/network/packetizer.py).                 *)
(*                                                                         *)
(* Spec        the connection used by several asyncio tasks: the session   *)
(*             lock, the two lock decorators, the control-channel cycles   *)
(*             of every operation, the passive data channel and its        *)
(*             closing, connect / login / disconnect.                      *)
(* SpecReader  the line framer followed by the reply reader, fed with the  *)
(*             bytes a server sends, in arbitrary chunks.                  *)
(*                                                                         *)
(* A task stands for one call chain of the application.  Every "await" of  *)
(* the code is a step boundary: the event loop may run another task there. *)
(***************************************************************************)
EXTENDS Integers, Sequences, FiniteSets, TLC

\* ----------------------------------------------------------------- bounds
NTasks == 2          \* concurrent callers of one connection
MaxItems == 2        \* items a stream yields before the data ends
MaxData == 1         \* data transports open at once (current + orphaned)
GreetingReads == 2   \* stands for range(255) of connect()'s greeting loop

Tasks == 1..NTasks

\* ------------------------------------------------------- operation kinds
\* @connection_lock: cwd, cdup, pwd, size, type, pasv, mdtm, mlst, mkd, rmd,
\* noop, acct, site, rawcmd, dele, quit ("cmd": one request/response cycle),
\* rename ("rename": RNFR then RNTO), get / rest_get / stor / appe ("get":
\* __read_data_channel or __write_data_channel between the 150 and the 226).
LockedCmds == {"cmd", "rename", "get"}
\* @connection_lock_asynciter: feat, help, stat ("feat": the messages of one
\* reply), list / get_file ("list": data read), mlsd ("mlsd": data read and
\* parse_mlsd_line on every line).
LockedIters == {"feat", "list", "mlsd"}
\* not decorated
Unlocked == {"connect", "login", "disconnect"}
Ops == LockedCmds \cup LockedIters \cup Unlocked
DataOps == {"get", "list", "mlsd"}

VARIABLES
    network_connection,    \* "none" | "open": self.network_connection
    connection_closed_evt, \* BOOLEAN: the event is set
    locked,                \* BOOLEAN: asyncio.Lock of the connection
    passive,               \* BOOLEAN: target.passive
    pc,                    \* task -> position in its operation
    op,                    \* task -> operation it runs
    data,                  \* task -> "none" | "open" | "closed": data_connection
    orphans,               \* open data transports whose generator was abandoned
    count,                 \* task -> items yielded / greeting replies read
    ret,                   \* task -> what the caller last received
    blk,                   \* task -> streams that were left when it was called
    \* --- SpecReader
    wire,                  \* the bytes the server sends for this exchange
    sent,                  \* how many of them the transport has delivered
    in_buffer,             \* FTPPacketizer.in_buffer
    lines,                 \* framed lines not yet taken by read_one
    transport,             \* "up" | "eof" | "reset"
    rpc,                   \* "run" | "done": position of __read_response
    rcode,                 \* local rcode of __read_response (<<>> is None)
    response,              \* local response of __read_response
    result,                \* what __read_response returned
    taken,                 \* lines read_one has handed to __read_response
    \* --- SpecSession
    spc,                   \* position of the caller in connect / login / disconnect
    sop,                   \* the operation the caller called
    nologin,               \* argument of connect()
    stype,                 \* credential.stype
    transports,            \* control transports that are open
    written,               \* commands written to the control channel in this call
    reads,                 \* __read_response calls of the greeting loop
    greeting,              \* response of connect() after its last greeting read
    user_reply,            \* response to USER
    pass_reply,            \* response to PASS
    pend,                  \* exception connect() has caught
    pre,                   \* session state when the call was made
    sret,                  \* what the call returned
    expected,              \* last application of FTPResponse.expect: its input
    raised,                \* and what it raised
    \* --- SpecPasv
    target,                \* self.target, the control target
    pasv_reply,            \* the reply to PASV that __pasv has read
    pasv_ret,              \* what __pasv returned
    \* --- SpecListing
    mlsd_line,             \* argument line of parse_mlsd_line
    basepath,              \* argument basepath of parse_mlsd_line
    entry,                 \* what parse_mlsd_line returned or raised
    fs,                    \* the tree of the server that enum_all walks
    enum_args,             \* arguments path, depth, filter_cb of enum_all
    frames,                \* the running enum_all calls, the innermost last
    enum_out,              \* what enum_all has yielded to its caller
    mlsd_log,              \* the paths mlsd was called with
    stream,                \* the mlsd stream of enum_all that holds the session lock
    filter_calls,          \* the entries filter_cb was called with, and its results
    enum_errs,             \* the errors the mlsd streams of enum_all ended with
    \* --- SpecTransfer
    xpc,                   \* position of the caller in its command
    xop,                   \* the public command it called
    replies,               \* replies the server has sent that nobody has read yet
    owed,                  \* transfer commands whose final reply the server has yet to send
    cmd_no,                \* number of the command line written last
    xfer_no,               \* number of the transfer command of this call
    got,                   \* last __read_response: the command it read for, and whose reply it got
    events,                \* what this call has done on the two channels, in order
    dch,                   \* "none" | "open" | "closed": data_connection of this call
    calls,                 \* public commands called so far
    xret,                  \* what the last command returned
    chunks,                \* data chunks moved in this call
    \* --- SpecDataRead
    dwire,                 \* the bytes the server sends on the data transport
    dsent,                 \* how many of them have arrived
    buffer,                \* local buffer of __read_data_channel
    yielded,               \* the items __read_data_channel has yielded
    deof                   \* BOOLEAN: the data transport has reached end-of-stream

connVars == <<network_connection, connection_closed_evt, locked, passive, pc, op,
              data, orphans, count, ret, blk>>
readerVars == <<wire, sent, in_buffer, lines, transport, rpc, rcode, response,
                result, taken>>
sessVars == <<spc, sop, nologin, stype, transports, written, reads, greeting,
              user_reply, pass_reply, pend, pre, sret, expected, raised>>
pasvVars == <<target, pasv_reply, pasv_ret>>
parseVars == <<mlsd_line, basepath, entry>>
enumVars == <<fs, enum_args, frames, enum_out, mlsd_log, stream, filter_calls, enum_errs>>
xferVars == <<xpc, xop, replies, owed, cmd_no, xfer_no, got, events, dch, calls, xret, chunks>>
dreadVars == <<dwire, dsent, buffer, yielded, deof>>
auxVars == <<pasvVars, parseVars, enumVars, xferVars, dreadVars>>
vars == <<connVars, readerVars, sessVars, auxVars>>

NoRet == [outcome |-> "none", path |-> "none", data |-> "none", lockfree |-> TRUE]
NoBlk == [s \in Tasks |-> "-"]
NoResult == [kind |-> "none", code |-> <<>>, messages |-> <<>>, last |-> "none"]

\* --- SpecSession: no code (None), no reply read yet, no error, nothing returned
NoCode == <<>>
Unread == <<"?">>

Error(type, code, messages, expect) ==
    [type |-> type, code |-> code, messages |-> messages, expected |-> expect]

NoError == Error("none", NoCode, <<>>, {})
NoExpect == [code |-> Unread, messages |-> <<>>, expect |-> {}]
NoSRet == [outcome |-> "none", error |-> NoError]

\* the part of the session that the session specification does not run
SessIdle ==
    /\ spc = "idle"
    /\ sop = "none"
    /\ nologin = FALSE
    /\ stype = "NONE"
    /\ transports = 0
    /\ written = <<>>
    /\ reads = 0
    /\ greeting = Unread
    /\ user_reply = Unread
    /\ pass_reply = Unread
    /\ pend = NoError
    /\ pre = [network_connection |-> "none", connection_closed_evt |-> FALSE,
              transports |-> 0]
    /\ sret = NoSRet
    /\ expected = NoExpect
    /\ raised = NoError

\* --- SpecPasv: a target, as FTPTarget.__init__ builds it
DefaultTimeout == 10
FTPTarget(ip, port, timeout, hostname, proxies, pasv_flag) ==
    [ip |-> ip, port |-> port, timeout |-> timeout, hostname |-> hostname,
     proxies |-> proxies, passive |-> pasv_flag]
NoTarget == FTPTarget(<<>>, 0, 0, "none", [id |-> 0, chain |-> <<>>], FALSE)
NoPasvReply == [code |-> Unread, messages |-> <<>>]

\* nothing has been parsed
NoEntry == [kind |-> "none"]
ParseIdle ==
    /\ mlsd_line = <<>>
    /\ basepath = <<>>
    /\ entry = NoEntry

\* the parts of the state that the other specifications do not run
PasvIdle ==
    /\ target = FTPTarget(<<"s">>, 21, DefaultTimeout, "none",
                          [id |-> 1, chain |-> <<>>], TRUE)
    /\ pasv_reply = NoPasvReply
    /\ pasv_ret = [target |-> NoTarget, err |-> NoError]

\* enum_all is not running
NoArgs == [path |-> <<>>, depth |-> 0, filter_cb |-> "none"]
EnumIdle ==
    /\ fs = <<>>
    /\ enum_args = NoArgs
    /\ frames = <<>>
    /\ enum_out = <<>>
    /\ mlsd_log = <<>>
    /\ stream = "none"
    /\ filter_calls = <<>>
    /\ enum_errs = <<>>

\* no command of the single caller is running and nothing is on the wire
NoGot == [want |-> 0, from |-> 0]
XferIdle ==
    /\ xpc = "idle"
    /\ xop = "none"
    /\ replies = <<>>
    /\ owed = {}
    /\ cmd_no = 0
    /\ xfer_no = 0
    /\ got = NoGot
    /\ events = <<>>
    /\ dch = "none"
    /\ calls = 0
    /\ xret = "none"
    /\ chunks = 0

\* no data-channel read is running
DReadIdle ==
    /\ dwire = <<>>
    /\ dsent = 0
    /\ buffer = <<>>
    /\ yielded = <<>>
    /\ deof = FALSE

AuxIdle ==
    /\ PasvIdle
    /\ ParseIdle
    /\ EnumIdle
    /\ XferIdle
    /\ DReadIdle

\* self.network_connection = None, a fresh lock, nothing running
InitConn ==
    /\ network_connection = "none"
    /\ connection_closed_evt = FALSE
    /\ locked = FALSE
    /\ passive \in BOOLEAN
    /\ pc = [t \in Tasks |-> "idle"]
    /\ op = [t \in Tasks |-> "cmd"]
    /\ data = [t \in Tasks |-> "none"]
    /\ orphans = 0
    /\ count = [t \in Tasks |-> 0]
    /\ ret = [t \in Tasks |-> NoRet]
    /\ blk = [t \in Tasks |-> NoBlk]

\* --------------------------------------------------------------- helpers
Goto(t, p) == pc' = [pc EXCEPT ![t] = p]

OpenData == Cardinality({u \in Tasks : data[u] = "open"})

\* the stream of s is over: nobody waits behind it any more
Unblock(s) == [t \in Tasks |-> [blk[t] EXCEPT ![s] = "-"]]

\* a lock that lets every caller in
CanAcquireAlways == TRUE

\* async with self.__lock: acquire() goes on only when the lock is free
CanAcquire == ~locked

\* a wrapper that gives the lock back whenever it hands out an item
LockReleasedAtYield == FALSE

\* "yield result" inside "async with self.__lock": the wrapper is suspended
\* with the lock as it is
LockAtYield == locked

\* the wrapper leaves "async with self.__lock" (return, exception, close)
LockAtExit == FALSE

Left(s) == pc[s] \in {"created", "yielded", "yielded_err"}

\* ---------------------------------------------------------- calling
\* The caller names an operation.  A @connection_lock coroutine starts with
\* the lock; a @connection_lock_asynciter call only creates the generator;
\* connect() resets the closed event; disconnect() on a session without a
\* transport returns at once, otherwise it writes QUIT (__quit).
\* acquire() of a free lock takes it without suspending; otherwise the caller
\* waits.
Enter == IF CanAcquire THEN "w1" ELSE "acquire"

Call(t, o) ==
    /\ pc[t] = "idle"
    /\ op' = [op EXCEPT ![t] = o]
    /\ count' = [count EXCEPT ![t] = 0]
    /\ blk' = [blk EXCEPT ![t] = [s \in Tasks |->
                  IF s = t THEN "-"
                  ELSE IF pc[s] = "created" THEN "created"
                  ELSE IF pc[s] \in {"yielded", "yielded_err"} THEN "suspended"
                  ELSE "-"]]
    /\ connection_closed_evt' = IF o = "connect" THEN FALSE ELSE connection_closed_evt
    /\ IF o = "disconnect" /\ network_connection = "none"
       THEN /\ Goto(t, "idle")
            /\ ret' = [ret EXCEPT ![t] = [outcome |-> "ok", path |-> "noop",
                                          data |-> "none", lockfree |-> ~locked]]
       ELSE /\ Goto(t, CASE o \in LockedCmds -> Enter
                         [] o \in LockedIters -> "created"
                         [] o = "connect" -> "c_open"
                         [] o = "login" -> "l_user_w"
                         [] OTHER -> "d_quit_r")
            /\ ret' = [ret EXCEPT ![t] = NoRet]
    /\ locked' = IF o \in LockedCmds THEN TRUE ELSE locked
    /\ UNCHANGED <<readerVars, sessVars, auxVars, network_connection, passive, data, orphans>>

\* the first __anext__ of the wrapper generator
Anext(t) ==
    /\ pc[t] = "created"
    /\ Goto(t, Enter)
    /\ locked' = TRUE
    /\ UNCHANGED <<readerVars, sessVars, auxVars, network_connection, connection_closed_evt, passive, op,
                   data, orphans, count, ret, blk>>

\* a waiter is woken once the lock has been released
Acquire(t) ==
    /\ pc[t] = "acquire"
    /\ CanAcquire
    /\ locked' = TRUE
    /\ Goto(t, "w1")
    /\ UNCHANGED <<readerVars, sessVars, auxVars, network_connection, connection_closed_evt, passive, op,
                   data, orphans, count, ret, blk>>

\* ------------------------------------------------------- leaving
\* "except Exception as e" of a decorated operation.  A coroutine returns
\* (None, e) and its wrapper leaves the lock; a generator yields (None, e)
\* and stays suspended there.  The data-channel generator is not closed by
\* either: if it had opened a transport, the transport stays open until the
\* event loop finalizes the abandoned generator.
Fail(t, path) ==
    /\ IF op[t] \in LockedCmds
       THEN /\ Goto(t, "idle")
            /\ locked' = LockAtExit
       ELSE /\ Goto(t, "yielded_err")
            /\ locked' = LockAtYield
    /\ ret' = [ret EXCEPT ![t] = [outcome |-> "err", path |-> path,
                                  data |-> data[t], lockfree |-> ~locked']]
    /\ orphans' = IF data[t] = "open" THEN orphans + 1 ELSE orphans
    /\ data' = [data EXCEPT ![t] = "none"]
    /\ UNCHANGED <<readerVars, sessVars, auxVars, network_connection, connection_closed_evt, passive, op,
                   count, blk>>

\* the operation ends without error: a coroutine returns its result, a
\* generator is exhausted; the wrapper leaves the lock
Succeed(t) ==
    /\ Goto(t, "idle")
    /\ locked' = LockAtExit
    /\ ret' = [ret EXCEPT ![t] = [outcome |-> "ok", path |-> "success",
                                  data |-> data[t], lockfree |-> ~locked']]
    /\ data' = [data EXCEPT ![t] = "none"]
    /\ blk' = IF op[t] \in LockedIters THEN Unblock(t) ELSE blk
    /\ UNCHANGED <<readerVars, sessVars, auxVars, network_connection, connection_closed_evt, passive, op,
                   orphans, count>>

\* -------------------------------------------- control-channel cycles
\* await self.network_connection.write(<command>)
Write1(t) ==
    /\ pc[t] = "w1"
    /\ \/ /\ network_connection = "open"
          /\ Goto(t, "r1")
          /\ UNCHANGED <<readerVars, sessVars, auxVars, network_connection, connection_closed_evt, locked, passive,
                         op, data, orphans, count, ret, blk>>
       \/ Fail(t, "write")

\* response, err = await self.__read_response(); response.expect([...])
Read1(t) ==
    /\ pc[t] = "r1"
    /\ \/ /\ network_connection = "open"
          /\ op[t] = "cmd"
          /\ Succeed(t)
       \/ /\ network_connection = "open"
          /\ op[t] \in {"rename"} \cup DataOps
          /\ Goto(t, IF op[t] = "rename" THEN "w2" ELSE "pasv_w")
          /\ UNCHANGED <<readerVars, sessVars, auxVars, network_connection, connection_closed_evt, locked, passive,
                         op, data, orphans, count, ret, blk>>
       \/ /\ network_connection = "open"
          /\ op[t] = "feat"
          /\ Goto(t, "yielded")
          /\ locked' = LockAtYield
          /\ count' = [count EXCEPT ![t] = 1]
          /\ UNCHANGED <<readerVars, sessVars, auxVars, network_connection, connection_closed_evt, passive, op,
                         data, orphans, ret, blk>>
       \/ Fail(t, "reply")

\* rename: RNTO after the 350 reply to RNFR
Write2(t) ==
    /\ pc[t] = "w2"
    /\ \/ /\ network_connection = "open"
          /\ Goto(t, "r2")
          /\ UNCHANGED <<readerVars, sessVars, auxVars, network_connection, connection_closed_evt, locked, passive,
                         op, data, orphans, count, ret, blk>>
       \/ Fail(t, "write")

\* the final reply (226 of a transfer, 250 of RNTO)
Read2(t) ==
    /\ pc[t] = "r2"
    /\ \/ /\ network_connection = "open"
          /\ Succeed(t)
       \/ Fail(t, "final")

\* ------------------------------------------------------ data channel
\* a data channel manager that does not look at the passive flag
PassiveModeAny == TRUE

\* "if self.target.passive is False: raise Exception(...)"
PassiveMode == passive

\* __read_data_channel / __write_data_channel, first step: active mode is
\* refused before anything is written; otherwise __pasv writes PASV
PasvWrite(t) ==
    /\ pc[t] = "pasv_w"
    /\ \/ /\ PassiveMode
          /\ network_connection = "open"
          /\ Goto(t, "pasv_r")
          /\ UNCHANGED <<readerVars, sessVars, auxVars, network_connection, connection_closed_evt, locked,
                         passive, op, data, orphans, count, ret, blk>>
       \/ Fail(t, IF PassiveMode THEN "pasv" ELSE "active")

\* __pasv reads the 227 reply and derives the data target
PasvRead(t) ==
    /\ pc[t] = "pasv_r"
    /\ \/ /\ network_connection = "open"
          /\ Goto(t, "dconn")
          /\ UNCHANGED <<readerVars, sessVars, auxVars, network_connection, connection_closed_evt, locked,
                         passive, op, data, orphans, count, ret, blk>>
       \/ Fail(t, "pasv")

\* data_connection = await client.connect()
DataConnect(t) ==
    /\ pc[t] = "dconn"
    /\ \/ /\ orphans + OpenData < MaxData
          /\ data' = [data EXCEPT ![t] = "open"]
          /\ Goto(t, "xfer")
          /\ UNCHANGED <<readerVars, sessVars, auxVars, network_connection, connection_closed_evt, locked,
                         passive, op, orphans, count, ret, blk>>
       \/ Fail(t, "connect")

\* one item of "async for data in data_connection.read()" (one chunk written
\* by __write_data_channel): get and stor go on, list / get_file / mlsd
\* yield it to the caller through the wrapper
DataItem(t) ==
    /\ pc[t] = "xfer"
    /\ count[t] < MaxItems
    /\ count' = [count EXCEPT ![t] = @ + 1]
    /\ IF op[t] \in LockedIters
       THEN Goto(t, "yielded") /\ locked' = LockAtYield
       ELSE UNCHANGED <<pc, locked>>
    /\ UNCHANGED <<readerVars, sessVars, auxVars, network_connection, connection_closed_evt, passive, op,
                   data, orphans, ret, blk>>

\* the data is exhausted: the data-channel generator runs its "finally:
\* await data_connection.close()" and ends; the final reply is read next
DataEnd(t) ==
    /\ pc[t] = "xfer"
    /\ data' = [data EXCEPT ![t] = "closed"]
    /\ Goto(t, "r2")
    /\ UNCHANGED <<readerVars, sessVars, auxVars, network_connection, connection_closed_evt, locked,
                   passive, op, orphans, count, ret, blk>>

\* data_connection.read() / write() raises: the data-channel generator
\* yields (None, e) from its except clause and the operation raises it
DataError(t) ==
    /\ pc[t] = "xfer"
    /\ Fail(t, "transfer")

\* mlsd: parse_mlsd_line raises on a line
ParseFail(t) ==
    /\ pc[t] = "xfer"
    /\ op[t] = "mlsd"
    /\ Fail(t, "parse")

\* the event loop's finalizer of an abandoned data-channel generator: aclose()
\* makes it run "finally: await data_connection.close()"
Finalize ==
    /\ orphans > 0
    /\ orphans' = orphans - 1
    /\ UNCHANGED <<readerVars, sessVars, auxVars, network_connection, connection_closed_evt, locked,
                   passive, pc, op, data, count, ret, blk>>

\* ------------------------------------------------- the caller of a stream
\* the caller asks for the next item of list / get_file / mlsd
ResumeData(t) ==
    /\ pc[t] = "yielded"
    /\ op[t] \in {"list", "mlsd"}
    /\ Goto(t, "xfer")
    /\ UNCHANGED <<readerVars, sessVars, auxVars, network_connection, connection_closed_evt, locked,
                   passive, op, data, orphans, count, ret, blk>>

\* feat / help / stat: the next element of response.messages
NextMessage(t) ==
    /\ pc[t] = "yielded"
    /\ op[t] = "feat"
    /\ count[t] < MaxItems
    /\ count' = [count EXCEPT ![t] = @ + 1]
    /\ locked' = LockAtYield
    /\ UNCHANGED <<readerVars, sessVars, auxVars, network_connection, connection_closed_evt, passive, pc,
                   op, data, orphans, ret, blk>>

\* feat / help / stat: response.messages is exhausted
EndMessages(t) ==
    /\ pc[t] = "yielded"
    /\ op[t] = "feat"
    /\ Succeed(t)

\* an operation that goes back to its data after the error item
AfterErrorItemResumes == "xfer"

\* "except Exception as e: yield None, e" is the last statement of every
\* streaming operation
AfterErrorItem == "idle"

\* the caller asks for the item after the (None, e) item: the generator ends
ResumeAfterError(t) ==
    /\ pc[t] = "yielded_err"
    /\ Goto(t, AfterErrorItem)
    /\ locked' = LockAtExit
    /\ blk' = Unblock(t)
    /\ UNCHANGED <<readerVars, sessVars, auxVars, network_connection, connection_closed_evt, passive, op,
                   data, orphans, count, ret>>

\* aclose() of the wrapper generator, by the caller or by the event loop's
\* finalizer once the caller has dropped it.  GeneratorExit leaves "async
\* with" (the lock is released); "async for" does not close the generator of
\* the operation, nor that one the data-channel generator.
Aclose(t) ==
    /\ Left(t)
    /\ Goto(t, "idle")
    /\ locked' = IF pc[t] = "created" THEN locked ELSE LockAtExit
    /\ ret' = [ret EXCEPT ![t] =
                 IF pc[t] = "yielded_err" THEN @
                 ELSE [outcome |-> "closed",
                       path |-> IF pc[t] = "created" THEN "unstarted" ELSE "cancel",
                       data |-> data[t], lockfree |-> ~locked']]
    /\ orphans' = IF data[t] = "open" THEN orphans + 1 ELSE orphans
    /\ data' = [data EXCEPT ![t] = "none"]
    /\ blk' = Unblock(t)
    /\ UNCHANGED <<readerVars, sessVars, auxVars, network_connection, connection_closed_evt, passive, op,
                   count>>

\* --------------------------------------- connect / login / disconnect
\* an undecorated operation hands its result to the caller
Return(t, outcome, path) ==
    /\ Goto(t, "idle")
    /\ ret' = [ret EXCEPT ![t] = [outcome |-> outcome, path |-> path,
                                  data |-> "none", lockfree |-> ~locked]]

\* connect(): "except Exception as e: await self.disconnect(); return False, e"
ConnFail(t, path) ==
    /\ IF network_connection = "none"
       THEN Return(t, "err", path)
       ELSE /\ Goto(t, "d_quit_r")
            /\ ret' = [ret EXCEPT ![t] = [NoRet EXCEPT !.path = path]]
    /\ UNCHANGED <<readerVars, sessVars, auxVars, network_connection, connection_closed_evt, locked,
                   passive, op, data, orphans, count, blk>>

\* self.network_connection = await client.connect()
COpen(t) ==
    /\ pc[t] = "c_open"
    /\ \/ /\ network_connection' = "open"
          /\ Goto(t, "c_greet")
          /\ UNCHANGED <<readerVars, sessVars, auxVars, connection_closed_evt, locked, passive, op,
                         data, orphans, count, ret, blk>>
       \/ ConnFail(t, "open")

\* after the greeting loop: nologin or an authenticated greeting returns
\* success, anything else goes on with login()
AfterGreeting(t, g, nl) ==
    IF nl \/ g = "230"
    THEN Return(t, "ok", "connect")
    ELSE Goto(t, "l_user_w") /\ UNCHANGED ret

\* one __read_response of "for _ in range(255)": a 1xx reply continues the
\* loop, 220 / 230 / 232 leave it; when the range is used up the code goes on
\* with the last reply it read
CGreet(t) ==
    /\ pc[t] = "c_greet"
    /\ \/ /\ network_connection = "open"
          /\ \E g \in {"1xx", "220", "230"}, nl \in BOOLEAN :
                /\ count' = [count EXCEPT ![t] = IF g = "1xx" THEN @ + 1 ELSE @]
                /\ IF g = "1xx" /\ count[t] + 1 < GreetingReads
                   THEN UNCHANGED <<pc, ret>>
                   ELSE AfterGreeting(t, g, nl)
          /\ UNCHANGED <<readerVars, sessVars, auxVars, network_connection, connection_closed_evt, locked,
                         passive, op, data, orphans, blk>>
       \/ ConnFail(t, "greeting")

\* login(): USER, its reply, PASS, its reply; every failure is returned as
\* (False, e), also to connect(), which returns it as it is
LoginStep(t, from, to) ==
    /\ pc[t] = from
    /\ \/ /\ network_connection = "open"
          /\ IF to = "idle" THEN Return(t, "ok", "login")
                            ELSE Goto(t, to) /\ UNCHANGED ret
       \/ Return(t, "err", "login")
    /\ UNCHANGED <<readerVars, sessVars, auxVars, network_connection, connection_closed_evt, locked,
                   passive, op, data, orphans, count, blk>>

LUserWrite(t) == LoginStep(t, "l_user_w", "l_user_r")
LUserRead(t) == LoginStep(t, "l_user_r", "l_pass_w")
LPassWrite(t) == LoginStep(t, "l_pass_w", "l_pass_r")
LPassRead(t) == LoginStep(t, "l_pass_r", "idle")

\* disconnect(): QUIT has been written by __quit; its reply (or the failure
\* to read one) is discarded, then "await self.network_connection.close()"
\* is evaluated - on None when another disconnect() has finished meanwhile
DQuitRead(t) ==
    /\ pc[t] = "d_quit_r"
    /\ IF network_connection = "none"
       THEN Return(t, "raised", ret[t].path)
       ELSE Goto(t, "d_closing") /\ UNCHANGED ret
    /\ UNCHANGED <<readerVars, sessVars, auxVars, network_connection, connection_closed_evt, locked,
                   passive, op, data, orphans, count, blk>>

\* the transport is closed: self.network_connection = None and the closed
\* event is set
DClosed(t) ==
    /\ pc[t] = "d_closing"
    /\ network_connection' = "none"
    /\ connection_closed_evt' = TRUE
    /\ IF op[t] = "connect" THEN Return(t, "err", ret[t].path)
                            ELSE Return(t, "ok", "disconnect")
    /\ UNCHANGED <<readerVars, sessVars, auxVars, locked, passive, op, data, orphans, count, blk>>

\* ------------------------------------------------------- specification
NextConn ==
    \/ \E t \in Tasks, o \in Ops : Call(t, o)
    \/ \E t \in Tasks : Anext(t)
    \/ \E t \in Tasks : Acquire(t)
    \/ \E t \in Tasks : Write1(t)
    \/ \E t \in Tasks : Read1(t)
    \/ \E t \in Tasks : Write2(t)
    \/ \E t \in Tasks : Read2(t)
    \/ \E t \in Tasks : PasvWrite(t)
    \/ \E t \in Tasks : PasvRead(t)
    \/ \E t \in Tasks : DataConnect(t)
    \/ \E t \in Tasks : DataItem(t)
    \/ \E t \in Tasks : DataEnd(t)
    \/ \E t \in Tasks : DataError(t)
    \/ \E t \in Tasks : ParseFail(t)
    \/ Finalize
    \/ \E t \in Tasks : ResumeData(t)
    \/ \E t \in Tasks : NextMessage(t)
    \/ \E t \in Tasks : EndMessages(t)
    \/ \E t \in Tasks : ResumeAfterError(t)
    \/ \E t \in Tasks : Aclose(t)
    \/ \E t \in Tasks : COpen(t)
    \/ \E t \in Tasks : CGreet(t)
    \/ \E t \in Tasks : LUserWrite(t)
    \/ \E t \in Tasks : LUserRead(t)
    \/ \E t \in Tasks : LPassWrite(t)
    \/ \E t \in Tasks : LPassRead(t)
    \/ \E t \in Tasks : DQuitRead(t)
    \/ \E t \in Tasks : DClosed(t)

InitReaderIdle ==
    /\ wire = <<>>
    /\ sent = 0
    /\ in_buffer = <<>>
    /\ lines = <<>>
    /\ transport = "up"
    /\ rpc = "run"
    /\ rcode = <<>>
    /\ response = <<>>
    /\ result = NoResult
    /\ taken = 0

Init == InitConn /\ InitReaderIdle /\ SessIdle /\ AuxIdle

Next == NextConn

Spec == Init /\ [][Next]_vars

\* ====================================================================
\* The line framer and the reply reader.  A byte is a token: "SP" a space,
\* "CR" and "LF" the two line-terminator bytes, "-" the hyphen, anything else
\* itself.  A line, a code and a message are sequences of tokens.
\* ====================================================================
MaxText == 2         \* longest <text> of a reply built from the grammar
MaxLines == 2        \* lines of a stream built from arbitrary lines

Min(a, b) == IF a < b THEN a ELSE b

\* s[a:b] of Python for 0 <= a, 0 <= b: the indices are clamped
PySlice(s, a, b) == SubSeq(s, a + 1, Min(b, Len(s)))

StartsWith(s, p) == Len(s) >= Len(p) /\ SubSeq(s, 1, Len(p)) = p

\* bytes.find(b): the first index of b (from 1), or 0 when there is none
RECURSIVE FindFrom(_, _, _)
FindFrom(s, b, i) ==
    IF i > Len(s) THEN 0 ELSE IF s[i] = b THEN i ELSE FindFrom(s, b, i + 1)

Find(s, b) == FindFrom(s, b, 1)

\* str.strip(): whitespace is removed at both ends
Whitespace == {"SP", "CR", "LF"}

RECURSIVE LStrip(_)
LStrip(s) == IF s # <<>> /\ Head(s) \in Whitespace THEN LStrip(Tail(s)) ELSE s

RECURSIVE RStrip(_)
RStrip(s) ==
    IF s # <<>> /\ s[Len(s)] \in Whitespace THEN RStrip(SubSeq(s, 1, Len(s) - 1)) ELSE s

Strip(s) == RStrip(LStrip(s))

\* a framer that emits one line for a call: "if" in the place of "while"
process_buffer_once(buf) ==
    LET pos == Find(buf, "LF") IN
    IF Len(buf) = 0 \/ pos = 0
    THEN [buf |-> buf, out |-> <<>>]
    ELSE [buf |-> SubSeq(buf, pos + 1, Len(buf)), out |-> <<SubSeq(buf, 1, pos - 1)>>]

\* FTPPacketizer.process_buffer: every segment that ends at an LF is cut off
\* the buffer and emitted without the LF; what follows the last LF stays
RECURSIVE process_buffer(_)
process_buffer(buf) ==
    LET pos == Find(buf, "LF") IN
    IF Len(buf) = 0 \/ pos = 0
    THEN [buf |-> buf, out |-> <<>>]
    ELSE LET rest == process_buffer(SubSeq(buf, pos + 1, Len(buf))) IN
         [buf |-> rest.buf, out |-> <<SubSeq(buf, 1, pos - 1)>> \o rest.out]

\* a first line that keeps what follows the code as it is
FirstMessageRaw(line) == PySlice(line, 4, Len(line))

\* __read_response, first line: line[4:].strip()
FirstMessage(line) == Strip(PySlice(line, 4, Len(line)))

\* a terminal line appended like any other line
LastMessageWhole(line, code) == line

\* __read_response, terminal line: line[len(rcode) + 1:].strip()
LastMessage(line, code) == Strip(PySlice(line, Len(code) + 1, Len(line)))

\* __read_response, any other line: response.append(line)
MiddleMessage(line) == line

\* return FTPResponse(rcode, response), None
ReturnReply(code, msgs, last) ==
    /\ rpc' = "done"
    /\ result' = [kind |-> "reply", code |-> code, messages |-> msgs, last |-> last]

\* except Exception as e: return None, e
ReturnError(last) ==
    /\ rpc' = "done"
    /\ result' = [NoResult EXCEPT !.kind = "error", !.last = last]

\* the transport delivers the next n bytes: FTPPacketizer.data_in appends
\* them to in_buffer and emits the lines process_buffer finds
DataIn(n) ==
    /\ transport = "up"
    /\ sent + n <= Len(wire)
    /\ LET r == process_buffer(in_buffer \o SubSeq(wire, sent + 1, sent + n)) IN
         /\ in_buffer' = r.buf
         /\ lines' = lines \o r.out
    /\ sent' = sent + n
    /\ UNCHANGED <<connVars, sessVars, auxVars, wire, transport, rpc, rcode, response, result, taken>>

\* data_in(None), the flush the transport asks for when the stream has
\* ended: process_buffer on the buffer as it is
Flush ==
    /\ transport = "eof"
    /\ LET r == process_buffer(in_buffer) IN
         /\ in_buffer' = r.buf
         /\ lines' = lines \o r.out
    /\ UNCHANGED <<connVars, sessVars, auxVars, wire, sent, transport, rpc, rcode, response,
                   result, taken>>

\* the peer ends the stream ("eof") or the connection breaks ("reset")
TransportEnds(how) ==
    /\ transport = "up"
    /\ transport' = how
    /\ UNCHANGED <<connVars, sessVars, auxVars, wire, sent, in_buffer, lines, rpc, rcode, response,
                   result, taken>>

\* one turn of the loop of __read_response with the line read_one returned
ReadLine ==
    /\ rpc = "run"
    /\ lines # <<>>
    /\ LET line == Head(lines) IN
         /\ lines' = Tail(lines)
         /\ taken' = taken + 1
         /\ IF rcode = <<>>
            THEN IF Len(line) < 4
                 THEN \* line[3] raises IndexError
                      ReturnError("line") /\ UNCHANGED <<rcode, response>>
                 ELSE /\ rcode' = PySlice(line, 0, 3)
                      /\ response' = Append(response, FirstMessage(line))
                      /\ IF line[4] = "-"
                         THEN UNCHANGED <<rpc, result>>
                         ELSE ReturnReply(rcode', response', "line")
            ELSE IF StartsWith(line, rcode \o <<"SP">>)
                 THEN /\ response' = Append(response, LastMessage(line, rcode))
                      /\ ReturnReply(rcode, response', "line")
                      /\ UNCHANGED rcode
                 ELSE /\ response' = Append(response, MiddleMessage(line))
                      /\ UNCHANGED <<rcode, rpc, result>>
    /\ UNCHANGED <<connVars, sessVars, auxVars, wire, sent, in_buffer, transport>>

\* read_one returns None (the stream has ended, no line is left): "break",
\* and what has been collected is returned as the reply
ReadNone ==
    /\ rpc = "run"
    /\ lines = <<>>
    /\ transport = "eof"
    /\ ReturnReply(rcode, response, "None")
    /\ UNCHANGED <<connVars, sessVars, auxVars, wire, sent, in_buffer, lines, transport, rcode, response,
                   taken>>

\* read_one raises
ReadRaises ==
    /\ rpc = "run"
    /\ lines = <<>>
    /\ transport = "reset"
    /\ ReturnError("raised")
    /\ UNCHANGED <<connVars, sessVars, auxVars, wire, sent, in_buffer, lines, transport, rcode, response,
                   taken>>

\* ------------------------------------------------ what the server sends
Codes == {<<"2", "1", "1">>, <<"5", "5", "0">>}
CRLF == <<"CR", "LF">>

RECURSIVE SeqsUpTo(_, _)
SeqsUpTo(S, n) ==
    IF n = 0 THEN {<<>>}
    ELSE LET shorter == SeqsUpTo(S, n - 1) IN
         shorter \cup {Append(x, b) : x \in shorter, b \in S}

\* <text>: any bytes but the line terminators
Texts == SeqsUpTo({"a", "SP"}, MaxText)
TrimmedTexts == {x \in Texts : Strip(x) = x}

\* "<code> <text>\r\n"
Single(c, x) == c \o <<"SP">> \o x \o CRLF

\* "<code>-a\r\nb\r\n<code> c\r\n"
Multi(c, a, b, d) == c \o <<"-">> \o a \o CRLF \o b \o CRLF \o c \o <<"SP">> \o d \o CRLF

\* lines a server may send that the grammar does not foresee
OddLines == { <<"2", "1">>,                       \* shorter than a code and a separator
              <<"a", "b", "c", "SP", "a">>,       \* no digits where the code is
              <<"2", "1", "1", "-", "a">>,        \* an opening line
              <<"2", "1", "1", "SP", "a">>,       \* a terminal line of 211
              <<"5", "5", "0", "SP", "a">>,       \* a terminal line of another code
              <<"2", "1", "1", "a">> }            \* no separator after the code

RECURSIVE Join(_)
Join(ls) == IF ls = <<>> THEN <<>> ELSE Head(ls) \o CRLF \o Join(Tail(ls))

Tails == {<<>>, Single(<<"2", "1", "1">>, <<"a">>)}

SingleWires == {Single(c, x) \o tl : c \in Codes, x \in Texts, tl \in Tails}
MultiWires == {Multi(c, a, b, d) \o tl : c \in Codes, a \in TrimmedTexts,
                                        b \in TrimmedTexts, d \in TrimmedTexts,
                                        tl \in Tails}
OddWires == {Join(ls) : ls \in SeqsUpTo(OddLines, MaxLines)}
\* a reply of four lines whose second line happens to start with the code
\* and a space: "<code>-a", "<code> a ", "a", "<code> a"
CoincidentWires == {Join(<<c \o <<"-", "a">>, c \o <<"SP", "a", "SP">>, <<"a">>,
                           c \o <<"SP", "a">>>>) : c \in Codes}
Wires == SingleWires \cup MultiWires \cup OddWires \cup CoincidentWires

\* the session is idle while the reader is looked at on its own
ConnIdle ==
    /\ network_connection = "open"
    /\ connection_closed_evt = FALSE
    /\ locked = FALSE
    /\ passive = TRUE
    /\ pc = [t \in Tasks |-> "idle"]
    /\ op = [t \in Tasks |-> "cmd"]
    /\ data = [t \in Tasks |-> "none"]
    /\ orphans = 0
    /\ count = [t \in Tasks |-> 0]
    /\ ret = [t \in Tasks |-> NoRet]
    /\ blk = [t \in Tasks |-> NoBlk]

InitReader ==
    /\ ConnIdle
    /\ SessIdle
    /\ AuxIdle
    /\ wire \in Wires
    /\ sent = 0
    /\ in_buffer = <<>>
    /\ lines = <<>>
    /\ transport = "up"
    /\ rpc = "run"
    /\ rcode = <<>>
    /\ response = <<>>
    /\ result = NoResult
    /\ taken = 0

NextReader ==
    \/ \E n \in 1..Len(wire) : DataIn(n)
    \/ \E how \in {"eof", "reset"} : TransportEnds(how)
    \/ Flush
    \/ ReadLine
    \/ ReadNone
    \/ ReadRaises

SpecReader == InitReader /\ [][NextReader]_vars

\* ====================================================================
\* connect / login / disconnect of one caller, with the replies the server
\* sends.  A code is a sequence of three tokens; <<>> is the code None of
\* the reply __read_response returns when the transport has ended.
\* transports, written and the other variables of this part are kept by the
\* actions of SpecSession only.
\* ====================================================================
MaxTransports == 2   \* control transports open at once (current + leaked)

C120 == <<"1", "2", "0">>
C220 == <<"2", "2", "0">>
C221 == <<"2", "2", "1">>
C230 == <<"2", "3", "0">>
C232 == <<"2", "3", "2">>
C331 == <<"3", "3", "1">>
C332 == <<"3", "3", "2">>
C421 == <<"4", "2", "1">>
C530 == <<"5", "3", "0">>

ReplyCodes == {C120, C220, C221, C230, C232, C331, C332, C421, C530}

\* what "await self.__read_response()" hands back: (FTPResponse, None) with the
\* code of the reply, or with the code None at the end of the transport, or
\* (None, err)
ReadOutcomes ==
    {[err |-> FALSE, code |-> c, messages |-> <<"m">>] : c \in ReplyCodes}
    \cup {[err |-> FALSE, code |-> NoCode, messages |-> <<>>],
          [err |-> TRUE, code |-> NoCode, messages |-> <<>>]}

CredentialKinds == {"NONE", "PASSWORD", "NT"}

\* an exception of the transport (connect, write, read_one)
TransportError == Error("transport", NoCode, <<>>, {})
\* None[0], None.write
TypeError == Error("TypeError", NoCode, <<>>, {})
AttributeError == Error("AttributeError", NoCode, <<>>, {})
\* raise Exception("Unsupported credential type %s" % ...)
UnsupportedError == Error("Exception", NoCode, <<>>, {})
FTPAuthenticationException(code, messages) ==
    Error("FTPAuthenticationException", code, messages, {})

\* FTPResponse.expect: what it raises (NoError when it returns True)
Expect(code, messages, expect) ==
    IF code \in expect THEN NoError
    ELSE IF code = NoCode THEN TypeError
    ELSE IF code[1] = "5" THEN Error("FTPResponseException", code, messages, {})
    ELSE Error("FTPResponseExpectationException", code, messages, expect)

\* FTPResponse.more_messages, for a code that is not None
more_messages(code) == code[1] = "1"

lockVars == <<locked, passive, pc, op, data, orphans, count, ret, blk>>

\* response.expect(expect) has been evaluated
Applied(code, messages, expect) ==
    /\ expected' = [code |-> code, messages |-> messages, expect |-> expect]
    /\ raised' = Expect(code, messages, expect)

SReturn(outcome, e) ==
    /\ spc' = "idle"
    /\ sret' = [outcome |-> outcome, error |-> e]

\* a connect() that logs in whatever the greeting says
NeedsLoginAlways(nl, code) == TRUE

\* connect(): "if nologin is True: return" / "if response.code in ['230','232']"
NeedsLogin(nl, code) == ~nl /\ code \notin {C230, C232}

\* a login that goes on with PASS after either reply it expects
UserAcceptedEither(code) == code \in {C331, C332}

\* login / login_plain: "if response.code == '331'"
UserAccepted(code) == code = C331

\* a login that takes every credential for a password
SupportedAny(kind) == TRUE

\* login: stype is asyauthSecret.NONE or asyauthSecret.PASSWORD
Supported(kind) == kind \in {"NONE", "PASSWORD"}

\* a disconnect() that does not look at the session
ConnectedAlways == TRUE

\* disconnect: "if self.network_connection is not None"
Connected == network_connection # "none"

\* the caller calls connect(nologin), login() or disconnect()
SCall(o, nl) ==
    /\ spc = "idle"
    /\ o = "connect" \/ nl = FALSE
    /\ o = "connect" => transports < MaxTransports
    /\ sop' = o
    /\ nologin' = nl
    /\ spc' = CASE o = "connect" -> "c_open"
                [] o = "login" -> "l_begin"
                [] OTHER -> "d_begin"
    /\ connection_closed_evt' = IF o = "connect" THEN FALSE ELSE connection_closed_evt
    /\ written' = <<>>
    /\ reads' = 0
    /\ greeting' = Unread
    /\ user_reply' = Unread
    /\ pass_reply' = Unread
    /\ pend' = NoError
    /\ pre' = [network_connection |-> network_connection,
               connection_closed_evt |-> connection_closed_evt,
               transports |-> transports]
    /\ sret' = NoSRet
    /\ expected' = NoExpect
    /\ raised' = NoError
    /\ UNCHANGED <<lockVars, readerVars, auxVars, network_connection, stype, transports>>

\* connect: self.network_connection = await client.connect(); when it raises,
\* "except Exception as e: await self.disconnect()"
SOpen ==
    /\ spc = "c_open"
    /\ \/ /\ network_connection' = "open"
          /\ transports' = transports + 1
          /\ spc' = "c_greet"
          /\ UNCHANGED pend
       \/ /\ pend' = TransportError
          /\ spc' = "d_begin"
          /\ UNCHANGED <<network_connection, transports>>
    /\ UNCHANGED <<lockVars, readerVars, auxVars, connection_closed_evt, sop, nologin, stype,
                   written, reads, greeting, user_reply, pass_reply, pre, sret,
                   expected, raised>>

\* connect: one turn of "for _ in range(255)" and, when the loop is left,
\* the code after it.  An error of the read, the code None (more_messages
\* subscripts it) and a code expect refuses go to the except clause; a 1xx
\* reply goes round again while the range lasts; after the loop "response" is
\* the last reply read, whatever it was.
SGreet ==
    /\ spc = "c_greet"
    /\ \E r \in ReadOutcomes :
         LET code == r.code
             more == ~r.err /\ code # NoCode /\ more_messages(code)
             tested == ~r.err /\ code # NoCode /\ ~more
             e == IF r.err THEN TransportError
                  ELSE IF code = NoCode THEN TypeError
                  ELSE IF more THEN NoError
                  ELSE Expect(code, r.messages, {C220, C230, C232})
         IN /\ reads' = reads + 1
            /\ greeting' = IF r.err THEN greeting ELSE code
            /\ IF tested THEN Applied(code, r.messages, {C220, C230, C232})
                         ELSE UNCHANGED <<expected, raised>>
            /\ IF e # NoError
               THEN pend' = e /\ spc' = "d_begin" /\ UNCHANGED sret
               ELSE IF more /\ reads + 1 < GreetingReads
               THEN UNCHANGED <<spc, pend, sret>>
               ELSE IF NeedsLogin(nologin, code)
               THEN spc' = "l_begin" /\ UNCHANGED <<pend, sret>>
               ELSE SReturn("ok", NoError) /\ UNCHANGED pend
    /\ UNCHANGED <<lockVars, readerVars, auxVars, network_connection, connection_closed_evt,
                   sop, nologin, stype, transports, written, user_reply, pass_reply,
                   pre>>

\* login: the credential kind, then USER is written (login or login_plain);
\* every exception is returned as (False, e)
SLoginBegin ==
    /\ spc = "l_begin"
    /\ IF ~Supported(stype)
       THEN SReturn("err", UnsupportedError) /\ UNCHANGED written
       ELSE IF network_connection = "none"
       THEN SReturn("err", AttributeError) /\ UNCHANGED written
       ELSE \/ written' = Append(written, "USER") /\ spc' = "l_user_r"
               /\ UNCHANGED sret
            \/ SReturn("err", TransportError) /\ UNCHANGED written
    /\ UNCHANGED <<lockVars, readerVars, auxVars, network_connection, connection_closed_evt,
                   sop, nologin, stype, transports, reads, greeting, user_reply,
                   pass_reply, pend, pre, expected, raised>>

\* login / login_plain: the reply to USER, response.expect(["331", "332"])
SUserRead ==
    /\ spc = "l_user_r"
    /\ \E r \in ReadOutcomes :
         IF r.err
         THEN /\ SReturn("err", TransportError)
              /\ UNCHANGED <<user_reply, expected, raised>>
         ELSE LET e == Expect(r.code, r.messages, {C331, C332})
              IN /\ user_reply' = r.code
                 /\ Applied(r.code, r.messages, {C331, C332})
                 /\ IF e # NoError THEN SReturn("err", e)
                    ELSE IF UserAccepted(r.code)
                    THEN spc' = "l_pass_w" /\ UNCHANGED sret
                    ELSE SReturn("err", FTPAuthenticationException(r.code, r.messages))
    /\ UNCHANGED <<lockVars, readerVars, auxVars, network_connection, connection_closed_evt,
                   sop, nologin, stype, transports, written, reads, greeting,
                   pass_reply, pend, pre>>

\* login / login_plain: PASS is written
SPassWrite ==
    /\ spc = "l_pass_w"
    /\ \/ written' = Append(written, "PASS") /\ spc' = "l_pass_r" /\ UNCHANGED sret
       \/ SReturn("err", TransportError) /\ UNCHANGED written
    /\ UNCHANGED <<lockVars, readerVars, auxVars, network_connection, connection_closed_evt,
                   sop, nologin, stype, transports, reads, greeting, user_reply,
                   pass_reply, pend, pre, expected, raised>>

\* the reply to PASS: login does response.expect(["230"]), login_plain
\* compares the code with "230"
SPassRead ==
    /\ spc = "l_pass_r"
    /\ \E r \in ReadOutcomes :
         IF r.err
         THEN /\ SReturn("err", TransportError)
              /\ UNCHANGED <<pass_reply, expected, raised>>
         ELSE /\ pass_reply' = r.code
              /\ IF stype = "NONE"
                 THEN LET e == Expect(r.code, r.messages, {C230})
                      IN /\ Applied(r.code, r.messages, {C230})
                         /\ IF e # NoError THEN SReturn("err", e)
                                           ELSE SReturn("ok", NoError)
                 ELSE /\ UNCHANGED <<expected, raised>>
                      /\ IF r.code = C230
                         THEN SReturn("ok", NoError)
                         ELSE SReturn("err",
                                      FTPAuthenticationException(r.code, r.messages))
    /\ UNCHANGED <<lockVars, readerVars, auxVars, network_connection, connection_closed_evt,
                   sop, nologin, stype, transports, written, reads, greeting,
                   user_reply, pend, pre>>

\* disconnect() is over: its caller goes on - connect() returns (False, e)
SFinish == IF sop = "connect" THEN SReturn("err", pend) ELSE SReturn("ok", NoError)

\* disconnect: nothing to do without a transport; otherwise __quit writes
\* QUIT, and a write that raises is caught by __quit
SDisconnect ==
    /\ spc = "d_begin"
    /\ IF ~Connected
       THEN SFinish /\ UNCHANGED written
       ELSE \/ written' = Append(written, "QUIT") /\ spc' = "d_quit_r"
               /\ UNCHANGED sret
            \/ spc' = "d_close" /\ UNCHANGED <<written, sret>>
    /\ UNCHANGED <<lockVars, readerVars, auxVars, network_connection, connection_closed_evt,
                   sop, nologin, stype, transports, reads, greeting, user_reply,
                   pass_reply, pend, pre, expected, raised>>

\* __quit: the reply to QUIT; an error of the read and whatever
\* response.expect(["221"]) raises are caught
SQuitRead ==
    /\ spc = "d_quit_r"
    /\ \E r \in ReadOutcomes :
         IF r.err THEN UNCHANGED <<expected, raised>>
                  ELSE Applied(r.code, r.messages, {C221})
    /\ spc' = "d_close"
    /\ UNCHANGED <<lockVars, readerVars, auxVars, network_connection, connection_closed_evt,
                   sop, nologin, stype, transports, written, reads, greeting,
                   user_reply, pass_reply, pend, pre, sret>>

\* disconnect: await self.network_connection.close(), then
\* self.network_connection = None and self.connection_closed_evt.set()
SClose ==
    /\ spc = "d_close"
    /\ network_connection' = "none"
    /\ connection_closed_evt' = TRUE
    /\ transports' = transports - 1
    /\ SFinish
    /\ UNCHANGED <<lockVars, readerVars, auxVars, sop, nologin, stype, written, reads,
                   greeting, user_reply, pass_reply, pend, pre, expected, raised>>

InitSession ==
    /\ InitConn
    /\ InitReaderIdle
    /\ AuxIdle
    /\ spc = "idle"
    /\ sop = "none"
    /\ nologin = FALSE
    /\ stype \in CredentialKinds
    /\ transports = 0
    /\ written = <<>>
    /\ reads = 0
    /\ greeting = Unread
    /\ user_reply = Unread
    /\ pass_reply = Unread
    /\ pend = NoError
    /\ pre = [network_connection |-> "none", connection_closed_evt |-> FALSE,
              transports |-> 0]
    /\ sret = NoSRet
    /\ expected = NoExpect
    /\ raised = NoError

NextSession ==
    \/ \E o \in Unlocked, nl \in BOOLEAN : SCall(o, nl)
    \/ SOpen
    \/ SGreet
    \/ SLoginBegin
    \/ SUserRead
    \/ SPassWrite
    \/ SPassRead
    \/ SDisconnect
    \/ SQuitRead
    \/ SClose

SpecSession == InitSession /\ [][NextSession]_vars

\* the steps of the client go on by themselves; a reply is read when the
\* server has sent one (or the transport has ended), which is up to the server
SpecSessionLive ==
    /\ SpecSession
    /\ WF_vars(SOpen)
    /\ WF_vars(SLoginBegin)
    /\ WF_vars(SPassWrite)
    /\ WF_vars(SDisconnect)
    /\ WF_vars(SClose)

\* ====================================================================
\* __pasv: the PASV exchange and the data target it derives.  A message is
\* a sequence of tokens: "(" ")" "," "." "SP", the digits, and "t" for any
\* other character.
\* ====================================================================
C227 == <<"2", "2", "7">>

DigitTokens == <<"0", "1", "2", "3", "4", "5", "6", "7", "8", "9">>
IsDigit(c) == \E i \in 1..10 : DigitTokens[i] = c
DigitValue(c) == (CHOOSE i \in 1..10 : DigitTokens[i] = c) - 1

\* re.search(r'\((.*?)\)', s): the leftmost "(" that has a ")" after it, up
\* to the first such ")"; None when there is none
ReSearch(s) ==
    LET i == Find(s, "(")
        j == IF i = 0 THEN 0 ELSE FindFrom(s, ")", i + 1)
    IN IF i = 0 \/ j = 0
       THEN [found |-> FALSE, group |-> <<>>]
       ELSE [found |-> TRUE, group |-> SubSeq(s, i + 1, j - 1)]

\* str.split(sep) for a separator of one character
RECURSIVE Split(_, _)
Split(s, sep) ==
    LET i == Find(s, sep)
    IN IF i = 0 THEN <<s>>
       ELSE <<SubSeq(s, 1, i - 1)>> \o Split(SubSeq(s, i + 1, Len(s)), sep)

\* sep.join(parts)
RECURSIVE JoinWith(_, _)
JoinWith(parts, sep) ==
    IF parts = <<>> THEN <<>>
    ELSE IF Len(parts) = 1 THEN parts[1]
    ELSE parts[1] \o <<sep>> \o JoinWith(Tail(parts), sep)

\* int(s) of a string of decimal digits, whitespace around it allowed;
\* -1 stands for ValueError
RECURSIVE DigitsValue(_)
DigitsValue(s) ==
    IF s = <<>> THEN 0 ELSE DigitsValue(SubSeq(s, 1, Len(s) - 1)) * 10 + DigitValue(s[Len(s)])

PyInt(s) ==
    LET d == Strip(s)
    IN IF d # <<>> /\ \A i \in 1..Len(d) : IsDigit(d[i]) THEN DigitsValue(d) ELSE -1

\* a target made by copying the control target and changing address and port
DerivedTargetMutated(ip, port, ctl) == [ctl EXCEPT !.ip = ip, !.port = port]

\* FTPTarget(ip=..., port=..., proxies=copy.deepcopy(self.target.proxies)):
\* every other field is the default of the constructor, the proxy chain is a
\* new object with the same content
DerivedTarget(ip, port, ctl) ==
    FTPTarget(ip, port, DefaultTimeout, "none",
              [id |-> ctl.proxies.id + 1, chain |-> ctl.proxies.chain], TRUE)

IndexError == Error("IndexError", NoCode, <<>>, {})
ValueError == Error("ValueError", NoCode, <<>>, {})
\* FTPCommandException(command, code, messages)
FTPCommandException(command, code, messages) ==
    [type |-> "FTPCommandException", command |-> command, code |-> code,
     messages |-> messages, expected |-> {}]

PasvReturn(t, e) == [target |-> t, err |-> e]
NoPasvRet == PasvReturn(NoTarget, NoError)

\* __pasv after the reply has been read: expect(["227"]), the group of the
\* first message ("None.group" raises AttributeError when there is no match,
\* so the test "passive_def is None" is never true), the address from the
\* first four elements, the port from the fifth and the sixth
pasv(reply, ctl) ==
    LET e == Expect(reply.code, reply.messages, {C227})
        m == ReSearch(reply.messages[1])
        parts == Split(m.group, ",")
        ip == JoinWith(PySlice(parts, 0, 4), ".")
    IN IF e # NoError THEN PasvReturn(NoTarget, e)
       ELSE IF reply.messages = <<>> THEN PasvReturn(NoTarget, IndexError)
       ELSE IF ~m.found THEN PasvReturn(NoTarget, AttributeError)
       ELSE IF Len(parts) < 5 THEN PasvReturn(NoTarget, IndexError)
       ELSE IF PyInt(parts[5]) = -1 THEN PasvReturn(NoTarget, ValueError)
       ELSE IF Len(parts) < 6 THEN PasvReturn(NoTarget, IndexError)
       ELSE IF PyInt(parts[6]) = -1 THEN PasvReturn(NoTarget, ValueError)
       ELSE PasvReturn(DerivedTarget(ip, PyInt(parts[5]) * 256 + PyInt(parts[6]), ctl),
                       NoError)

\* --- the replies a server may give to PASV
\* decimal digits of a byte value
RECURSIVE Dec(_)
Dec(n) == IF n < 10 THEN <<DigitTokens[n + 1]>>
          ELSE Dec(n \div 10) \o <<DigitTokens[(n % 10) + 1]>>

Quads == {<<127, 0, 0, 1>>, <<10, 0, 255, 19>>}
PortPairs == {<<19, 136>>, <<0, 21>>, <<255, 255>>}
Dotted(q) == JoinWith(<<Dec(q[1]), Dec(q[2]), Dec(q[3]), Dec(q[4])>>, ".")
TupleText(q, p) ==
    <<"(">> \o JoinWith(<<Dec(q[1]), Dec(q[2]), Dec(q[3]), Dec(q[4]),
                          Dec(p[1]), Dec(p[2])>>, ",") \o <<")">>
\* text in front of the tuple: none, "t ", "(t) "
Prefixes == {<<>>, <<"t", "SP">>, <<"(", "t", ")", "SP">>}
Suffixes == {<<>>, <<".">>}
TupleMessage(x, q, p, y) == x \o TupleText(q, p) \o y
TupleMessages == {TupleMessage(x, q, p, y) : x \in Prefixes, q \in Quads,
                                             p \in PortPairs, y \in Suffixes}
\* no group, an unclosed group, a short tuple, a tuple with a letter
OddPasvMessages == { <<"t">>, <<"t", "SP", "(", "1", ",", "2">>,
                     <<"(", "1", ",", "2", ")">>,
                     <<"(", "1", ",", "2", ",", "3", ",", "4", ",", "t", ",", "5", ")">> }
PasvReplies ==
    {[code |-> C227, messages |-> <<m>>] : m \in TupleMessages \cup OddPasvMessages}
    \cup {[code |-> C530, messages |-> <<<<"t">>>>], [code |-> NoCode, messages |-> <<>>]}

ControlTargets ==
    {FTPTarget(<<"s">>, 21, tm, h, [id |-> 1, chain |-> ch], pv) :
        tm \in {DefaultTimeout, 5}, h \in {"none", "h"},
        ch \in {<<>>, <<"p">>}, pv \in BOOLEAN}

\* one PASV exchange: PASV is written, the reply is read and taken apart;
\* an exception of the write or of the read is returned as (None, e)
PasvExchange ==
    /\ \/ \E r \in PasvReplies : /\ pasv_reply' = r
                                 /\ pasv_ret' = pasv(r, target)
       \/ /\ pasv_reply' = NoPasvReply
          /\ pasv_ret' = PasvReturn(NoTarget, TransportError)
    /\ UNCHANGED <<connVars, readerVars, sessVars, parseVars, enumVars, xferVars, dreadVars, target>>

InitPasv ==
    /\ ConnIdle
    /\ InitReaderIdle
    /\ SessIdle
    /\ ParseIdle
    /\ EnumIdle
    /\ XferIdle
    /\ DReadIdle
    /\ target \in ControlTargets
    /\ pasv_reply = NoPasvReply
    /\ pasv_ret = NoPasvRet

NextPasv == PasvExchange

SpecPasv == InitPasv /\ [][NextPasv]_vars

\* ====================================================================
\* parse_mlsd_line: one line of an MLSD / MLST listing.  A line is a
\* sequence of tokens: ";" "=" "/" "." "SP" "CR", the digits, and words
\* ("size", "type", "file", "report", ...) that stand for text without any
\* of these characters.
\* ====================================================================
\* str.split(sep) for a separator of several characters: the string is cut
\* at every occurrence of sep, from the left
RECURSIVE FindStrFrom(_, _, _)
FindStrFrom(s, sep, i) ==
    IF i + Len(sep) - 1 > Len(s) THEN 0
    ELSE IF SubSeq(s, i, i + Len(sep) - 1) = sep THEN i
    ELSE FindStrFrom(s, sep, i + 1)

RECURSIVE SplitStr(_, _)
SplitStr(s, sep) ==
    LET i == FindStrFrom(s, sep, 1)
    IN IF i = 0 THEN <<s>>
       ELSE <<SubSeq(s, 1, i - 1)>> \o SplitStr(SubSeq(s, i + Len(sep), Len(s)), sep)

\* os.path.join(a, b) of posixpath: b alone when it is absolute, no
\* separator added when a is empty or ends with one
os_path_join(a, b) ==
    IF b # <<>> /\ Head(b) = "/" THEN b
    ELSE IF a = <<>> \/ a[Len(a)] = "/" THEN a \o b
    ELSE a \o <<"/">> \o b

\* the values of an entry: a string, an int, a datetime
PyStr(s) == [str |-> s]
PyIntValue(n) == [int |-> n]
DateTime(Y, m, d, H, M, S) == [datetime |-> <<Y, m, d, H, M, S>>]
\* no value: the conversion raised ValueError
NoValue == [raised |-> "ValueError"]

IsLeap(Y) == (Y % 4 = 0 /\ Y % 100 # 0) \/ Y % 400 = 0
DaysIn(Y, m) ==
    IF m = 2 THEN (IF IsLeap(Y) THEN 29 ELSE 28)
    ELSE IF m \in {4, 6, 9, 11} THEN 30 ELSE 31

\* datetime.datetime.strptime(value, "%Y%m%d%H%M%S") for a value of 14
\* digits (every field then has its full width) or a value that is not all
\* digits or is longer (no match): the datetime, or NoValue for ValueError
strptime(value) ==
    LET Y == DigitsValue(SubSeq(value, 1, 4))
        m == DigitsValue(SubSeq(value, 5, 6))
        d == DigitsValue(SubSeq(value, 7, 8))
        H == DigitsValue(SubSeq(value, 9, 10))
        M == DigitsValue(SubSeq(value, 11, 12))
        S == DigitsValue(SubSeq(value, 13, 14))
    IN IF Len(value) # 14 \/ \E i \in 1..Len(value) : ~IsDigit(value[i])
       THEN NoValue
       ELSE IF Y >= 1 /\ m \in 1..12 /\ d >= 1 /\ d <= DaysIn(Y, m)
               /\ H <= 23 /\ M <= 59 /\ S <= 59
       THEN DateTime(Y, m, d, H, M, S)
       ELSE NoValue

\* a parser that keeps every value as it stands in the line
FactValueRaw(key, value) == PyStr(value)

\* the value stored for a fact: modify is parsed as a timestamp, size as an
\* int, any other value is kept as it is; NoValue when the parse raises ValueError
FactValue(key, value) ==
    IF key = <<"modify">> THEN strptime(value)
    ELSE IF key = <<"size">>
    THEN (IF PyInt(value) = -1 THEN NoValue ELSE PyIntValue(PyInt(value)))
    ELSE PyStr(value)

\* entry[key] = value
Put(f, k, v) == [x \in (DOMAIN f) \cup {k} |-> IF x = k THEN v ELSE f[x]]

Parsed(f) == [kind |-> "entry", fields |-> f]
ParseRaised(e) == [kind |-> "raised", err |-> e]

\* for part in parts: key, value = part.split("="); ...; entry[key] = value
RECURSIVE ApplyFacts(_, _)
ApplyFacts(f, parts) ==
    IF parts = <<>> THEN Parsed(f)
    ELSE LET kv == Split(Head(parts), "=")
         IN IF Len(kv) # 2 THEN ParseRaised(ValueError)
            ELSE IF FactValue(kv[1], kv[2]) = NoValue THEN ParseRaised(ValueError)
            ELSE ApplyFacts(Put(f, kv[1], FactValue(kv[1], kv[2])), Tail(parts))

\* parse_mlsd_line(line, basepath): the stripped line is split at every
\* "; " and the result is unpacked into two names, which raises ValueError
\* when there are not exactly two pieces
parse_mlsd_line(l, base) ==
    LET halves == SplitStr(Strip(l), <<";", "SP">>)
        fname == halves[2]
        e0 == Put(Put(Put(<<>>, <<"name">>, PyStr(fname)),
                      <<"fullpath">>, PyStr(os_path_join(base, fname))),
                  <<"size">>, PyIntValue(0))
    IN IF Len(halves) # 2 THEN ParseRaised(ValueError)
       ELSE ApplyFacts(e0, Split(halves[1], ";"))

\* --- the lines a server may send
Fact(k, v) == <<k, v>>
FactText(f) == f[1] \o <<"=">> \o f[2]
RECURSIVE FactTexts(_)
FactTexts(facts) == IF facts = <<>> THEN <<>> ELSE <<FactText(Head(facts))>> \o FactTexts(Tail(facts))

SizeFacts == { <<>>, <<Fact(<<"size">>, <<"1", "2", "3", "4">>)>>,
               <<Fact(<<"size">>, <<"0">>)>>, <<Fact(<<"size">>, <<"0", "7">>)>> }
Modify2024 == <<"2", "0", "2", "4", "0", "1", "0", "1", "1", "2", "0", "0", "0", "0">>
ModifyFacts == { <<>>, <<Fact(<<"modify">>, Modify2024)>> }
TypeFacts == { <<Fact(<<"type">>, <<"file">>)>>, <<Fact(<<"type">>, <<"dir">>)>> }
PermFacts == { <<>>, <<Fact(<<"perm">>, <<"el">>)>> }
\* fact lists of one to four facts, in the order size, modify, type, perm
FactLists == { s \o m \o t \o p : s \in SizeFacts, m \in ModifyFacts,
                                   t \in TypeFacts, p \in PermFacts }
ReportTxt == <<"report", ".", "txt">>
\* file names: plain, with a space, with "; " inside, absolute
Names == { <<"a">>, ReportTxt, <<"a", "SP", "b">>, <<"a", ";", "SP", "b">>,
           <<"/", "a">> }
Pads == { <<>>, <<"CR">> }
Line(facts, n, w) == JoinWith(FactTexts(facts), ";") \o <<";", "SP">> \o n \o w
GrammarLines == { Line(facts, n, w) : facts \in FactLists, n \in Names, w \in Pads }
\* no "; ", no fact, a size that is no number, the 30th of February, a value
\* with "=" in it
OddListingLines == { <<"a">>, <<";", "SP", "a">>,
              Line(<<Fact(<<"size">>, <<"x">>)>>, <<"a">>, <<>>),
              Line(<<Fact(<<"modify">>, <<"2", "0", "2", "4", "0", "2", "3", "0", "1", "2", "0", "0", "0", "0">>)>>, <<"a">>, <<>>),
              Line(<<Fact(<<"unique">>, <<"A", "=", "=">>)>>, <<"a">>, <<>>) }
ListingLines == GrammarLines \cup OddListingLines
SlashData == <<"/", "data">>
BasePaths == { <<>>, SlashData, <<"/", "data", "/">> }

\* entry = parse_mlsd_line(line, path)
ParseLine ==
    /\ entry = NoEntry
    /\ entry' = parse_mlsd_line(mlsd_line, basepath)
    /\ UNCHANGED <<connVars, readerVars, sessVars, pasvVars, enumVars, xferVars, dreadVars, mlsd_line, basepath>>

InitListing ==
    /\ ConnIdle
    /\ InitReaderIdle
    /\ SessIdle
    /\ PasvIdle
    /\ EnumIdle
    /\ XferIdle
    /\ DReadIdle
    /\ mlsd_line \in ListingLines
    /\ basepath \in BasePaths
    /\ entry = NoEntry

NextListing == ParseLine

SpecListing == InitListing /\ [][NextListing]_vars

\* ====================================================================
\* enum_all: the recursive enumeration.  The server's tree is a function
\* from a directory (the sequence of the names that lead to it) to its
\* listing; every listing line goes through parse_mlsd_line, as in mlsd.
\* ====================================================================
KeyError == Error("KeyError", NoCode, <<>>, {})

File(n) == [name |-> <<n>>, facts |-> <<Fact(<<"type">>, <<"file">>)>>]
Dir(n) == [name |-> <<n>>, facts |-> <<Fact(<<"type">>, <<"dir">>)>>]

\* / {a.txt, dir1/ {b.txt}}
Tree1 ==
    (<<>> :> <<File("a.txt"), Dir("dir1")>>) @@ (<<"dir1">> :> <<File("b.txt")>>)
\* / {dir1/ {b.txt, sub/ {c.txt}}, a.txt, dir2/ {d.txt}}
Tree2 ==
    (<<>> :> <<Dir("dir1"), File("a.txt"), Dir("dir2")>>)
    @@ (<<"dir1">> :> <<File("b.txt"), Dir("sub")>>)
    @@ (<<"dir1", "sub">> :> <<File("c.txt")>>)
    @@ (<<"dir2">> :> <<File("d.txt")>>)
\* / {dir1/ {b.txt, d.txt}, dir2/ {e.txt}, "a; b", c.txt}: the line of
\* "a; b" does not parse, the line of b.txt has no type fact
Tree3 ==
    (<<>> :> <<Dir("dir1"), Dir("dir2"),
               [name |-> <<"a", ";", "SP", "b">>, facts |-> <<Fact(<<"type">>, <<"file">>)>>],
               File("c.txt")>>)
    @@ (<<"dir1">> :> <<[name |-> <<"b.txt">>, facts |-> <<Fact(<<"perm">>, <<"el">>)>>],
                        File("d.txt")>>)
    @@ (<<"dir2">> :> <<File("e.txt")>>)
\* every directory lists a directory d and a file f: a tree without end
Tree4 == (<<"*">> :> <<Dir("d"), File("f")>>)
Trees == {Tree1, Tree2, Tree3, Tree4}

\* the names of a path: "/dir1/sub", "dir1/sub" and "dir1/sub/" all name
\* the directory dir1/sub below the working directory "/"
PathNames(p) == SelectSeq(Split(p, "/"), LAMBDA x : x # <<>>)
PathKey(p) == [i \in 1..Len(PathNames(p)) |-> PathNames(p)[i][1]]

\* the listing of a directory: a tree with the key "*" lists that under
\* every name it has no listing of its own for
TreeListing(tree, key) ==
    IF key \in DOMAIN tree THEN tree[key]
    ELSE IF <<"*">> \in DOMAIN tree THEN tree[<<"*">>]
    ELSE <<>>

\* the lines the server sends for MLSD path
ServerListing(tree, p) == TreeListing(tree, PathKey(p))

Depths == {0, 1, 3}
StartPaths == {<<>>, <<"/">>}

\* parse_mlsd_line(line, path) for every line of the trees and every path
\* mlsd can be called with, worked out once
ItemsOf(tree) == UNION {{tree[k][i] : i \in 1..Len(tree[k])} : k \in DOMAIN tree}
ListedItems == UNION {ItemsOf(tree) : tree \in Trees}
ListedDirs == {it \in ListedItems : it.facts = Dir("d").facts}
RECURSIVE PathsBelow(_, _)
PathsBelow(ps, n) ==
    IF n = 0 THEN ps
    ELSE ps \cup PathsBelow({os_path_join(q, it.name) : q \in ps, it \in ListedDirs}, n - 1)
MlsdPaths == PathsBelow(StartPaths, CHOOSE d \in Depths : \A x \in Depths : x <= d)
MlsdLines == {Line(it.facts, it.name, <<>>) : it \in ListedItems}
mlsd_entry == [l \in MlsdLines, q \in MlsdPaths |-> parse_mlsd_line(l, q)]

\* filter_cb: none, or a coroutine that returns False for the entries
\* called dir2 and True for the others
FilterCbs == {"none", "skip_dir2"}
FilterAccepts(cb, e) == ~(cb = "skip_dir2" /\ e.fields[<<"name">>] = PyStr(<<"dir2">>))

\* a filter result that never makes enum_all skip
SkipsNever(res) == FALSE
\* if res is False: continue
Skips(res) == res = FALSE

\* a pending list that is read from its newest element
PendingNewestFirst(dirs, d) == <<d>> \o dirs
\* dirs.append(entry['fullpath'])
Pending(dirs, d) == Append(dirs, d)

\* directories are collected at depth 0 too
DescendsAtZero(depth) == depth >= 0
\* ... and depth > 0
Descends(depth) == depth > 0

\* one running enum_all: its arguments, the position in the listing of
\* its mlsd, its dirs, and where it is: "call" (mlsd(path) is iterated and
\* waits for the session lock), "listing" (the loop over mlsd), "recurse"
\* (the loop over dirs)
Frame(p, d) == [path |-> p, depth |-> d, pos |-> 1, dirs |-> <<>>, phase |-> "call"]

Top == frames[Len(frames)]
SetTop(f) == [frames EXCEPT ![Len(frames)] = f]
Pop == SubSeq(frames, 1, Len(frames) - 1)

\* yield of the running enum_all: every enum_all above it yields the data
\* again with None in the place of the error ("yield data, None")
YieldedTo(out, item, err) ==
    Append(out, [entry |-> item, err |-> IF Len(frames) = 1 THEN err ELSE NoError])
Yielded(item, err) == YieldedTo(enum_out, item, err)

EnumStarted == mlsd_log # <<>>
EnumDone == EnumStarted /\ frames = <<>>

EnumRest == <<connVars, readerVars, sessVars, pasvVars, parseVars, xferVars, dreadVars, fs, enum_args>>

\* enum_all(path, depth, filter_cb) is called and iterated: mlsd(path)
EnumCall ==
    /\ ~EnumStarted
    /\ frames' = <<Frame(enum_args.path, enum_args.depth)>>
    /\ mlsd_log' = <<enum_args.path>>
    /\ UNCHANGED <<EnumRest, enum_out, stream, filter_calls, enum_errs>>

\* connection_lock_asynciter: "async with self.__lock" of the mlsd that
\* was called; it waits while another stream holds the lock
EnumAcquire ==
    /\ frames # <<>>
    /\ Top.phase = "call"
    /\ stream = "none"
    /\ stream' = "open"
    /\ frames' = SetTop([Top EXCEPT !.phase = "listing"])
    /\ UNCHANGED <<EnumRest, enum_out, mlsd_log, filter_calls, enum_errs>>

\* one item of mlsd: entry = parse_mlsd_line(line, path).  A line that does
\* not parse: mlsd yields (None, None,
\* e) and ends, enum_all yields (None, e) and goes on with its dirs.  An
\* entry: filter_cb(entry['type'], entry), "yield entry, None", and
\* dirs.append when entry['type'] == 'dir' and depth > 0.  An entry without
\* a type fact raises KeyError, in the call of filter_cb or after the
\* yield: this enum_all yields (None, KeyError) and ends, and its mlsd
\* stream stays suspended inside "async with self.__lock".
EnumEntry ==
    /\ frames # <<>>
    /\ Top.phase = "listing"
    /\ Top.pos <= Len(ServerListing(fs, Top.path))
    /\ LET item == ServerListing(fs, Top.path)[Top.pos]
           e == mlsd_entry[Line(item.facts, item.name, <<>>), Top.path]
           cb == enum_args.filter_cb
       IN IF e.kind = "raised"
          THEN /\ enum_out' = Yielded(NoEntry, e.err)
               /\ enum_errs' = Append(enum_errs, e.err)
               /\ frames' = SetTop([Top EXCEPT !.phase = "recurse"])
               /\ stream' = "none"
               /\ UNCHANGED filter_calls
          ELSE IF <<"type">> \notin DOMAIN e.fields
          THEN /\ enum_out' = IF cb = "none"
                              THEN YieldedTo(Yielded(e, NoError), NoEntry, KeyError)
                              ELSE Yielded(NoEntry, KeyError)
               /\ frames' = Pop
               /\ stream' = "abandoned"
               /\ UNCHANGED <<filter_calls, enum_errs>>
          ELSE IF cb # "none" /\ Skips(FilterAccepts(cb, e))
          THEN /\ enum_out' = enum_out
               /\ filter_calls' = Append(filter_calls, [entry |-> e, res |-> FALSE])
               /\ frames' = SetTop([Top EXCEPT !.pos = @ + 1])
               /\ UNCHANGED <<stream, enum_errs>>
          ELSE /\ enum_out' = Yielded(e, NoError)
               /\ filter_calls' = IF cb = "none" THEN filter_calls
                                  ELSE Append(filter_calls,
                                              [entry |-> e, res |-> FilterAccepts(cb, e)])
               /\ frames' = SetTop([Top EXCEPT
                      !.pos = @ + 1,
                      !.dirs = IF e.fields[<<"type">>] = PyStr(<<"dir">>)
                                  /\ Descends(Top.depth)
                               THEN Pending(@, e.fields[<<"fullpath">>].str)
                               ELSE @])
               /\ UNCHANGED <<stream, enum_errs>>
    /\ UNCHANGED <<EnumRest, mlsd_log>>

\* mlsd yields (None, None, e) - the command is refused, the data channel
\* fails, the final reply is not 226 - and ends; enum_all yields (None, e)
\* and goes on with the directories collected so far
EnumListingFails ==
    /\ frames # <<>>
    /\ Top.phase = "listing"
    /\ enum_out' = Yielded(NoEntry, TransportError)
    /\ enum_errs' = Append(enum_errs, TransportError)
    /\ frames' = SetTop([Top EXCEPT !.phase = "recurse"])
    /\ stream' = "none"
    /\ UNCHANGED <<EnumRest, mlsd_log, filter_calls>>

\* mlsd ends after its last entry
EnumListingEnds ==
    /\ frames # <<>>
    /\ Top.phase = "listing"
    /\ Top.pos > Len(ServerListing(fs, Top.path))
    /\ frames' = SetTop([Top EXCEPT !.phase = "recurse"])
    /\ stream' = "none"
    /\ UNCHANGED <<EnumRest, enum_out, mlsd_log, filter_calls, enum_errs>>

\* for path in dirs: self.enum_all(path, depth - 1, filter_cb)
EnumDescend ==
    /\ frames # <<>>
    /\ Top.phase = "recurse"
    /\ Top.dirs # <<>>
    /\ frames' = Append(SetTop([Top EXCEPT !.dirs = Tail(@)]),
                        Frame(Head(Top.dirs), Top.depth - 1))
    /\ mlsd_log' = Append(mlsd_log, Head(Top.dirs))
    /\ UNCHANGED <<EnumRest, enum_out, stream, filter_calls, enum_errs>>

\* the loop over dirs is over: this enum_all ends
EnumReturn ==
    /\ frames # <<>>
    /\ Top.phase = "recurse"
    /\ Top.dirs = <<>>
    /\ frames' = Pop
    /\ UNCHANGED <<EnumRest, enum_out, mlsd_log, stream, filter_calls, enum_errs>>

\* the event loop closes the abandoned mlsd stream (the asynchronous
\* generator hooks of asyncio call aclose() on a generator that was dropped
\* unfinished): GeneratorExit leaves "async with self.__lock"
EnumFinalize ==
    /\ stream = "abandoned"
    /\ stream' = "none"
    /\ UNCHANGED <<EnumRest, frames, enum_out, mlsd_log, filter_calls, enum_errs>>

InitEnum ==
    /\ ConnIdle
    /\ InitReaderIdle
    /\ SessIdle
    /\ PasvIdle
    /\ ParseIdle
    /\ XferIdle
    /\ DReadIdle
    /\ fs \in Trees
    /\ enum_args \in [path : StartPaths, depth : Depths, filter_cb : FilterCbs]
    /\ frames = <<>>
    /\ enum_out = <<>>
    /\ mlsd_log = <<>>
    /\ stream = "none"
    /\ filter_calls = <<>>
    /\ enum_errs = <<>>

NextEnum ==
    \/ EnumCall
    \/ EnumAcquire
    \/ EnumEntry
    \/ EnumListingFails
    \/ EnumListingEnds
    \/ EnumDescend
    \/ EnumReturn
    \/ EnumFinalize

SpecEnum == InitEnum /\ [][NextEnum]_vars

\* the steps of enum_all go on by themselves when the server answers, and
\* the event loop runs the close of an abandoned stream it has scheduled
SpecEnumLive ==
    /\ SpecEnum
    /\ WF_vars(EnumCall)
    /\ WF_vars(EnumAcquire)
    /\ WF_vars(EnumEntry \/ EnumListingEnds \/ EnumListingFails)
    /\ WF_vars(EnumDescend)
    /\ WF_vars(EnumReturn)
    /\ WF_vars(EnumFinalize)

\* ====================================================================
\* One caller and the server's replies.  The caller runs public commands
\* one after the other; every command line written gets one reply from the
\* server, and a transfer command that was answered with 150 gets a final
\* reply as well (150 ... 226 or 426): the server sends it when it is done
\* with the data connection, or when the client has given the transfer up.  Replies are numbered by the command line they
\* answer, so that it shows whose reply a __read_response call reads.
\* ====================================================================
MaxCalls == 2
MaxChunks == 1

ListingOps == {"list", "mlsd"}
ReadOps == ListingOps \cup {"get", "get_file", "rest_get"}
WriteOps == {"stor", "appe"}
TransferOps == ReadOps \cup WriteOps
StreamOps == ListingOps \cup {"get_file"}
PublicOps == TransferOps \cup {"noop", "size"}

\* the command line a position writes
CommandAt(pos, o) ==
    CASE pos = "type_w" -> "TYPE"
      [] pos = "size_w" -> "SIZE"
      [] pos = "rest_w" -> "REST"
      [] pos = "pasv_w" -> "PASV"
      [] pos = "cmd_w" /\ o \in {"get", "get_file", "rest_get"} -> "RETR"
      [] pos = "cmd_w" /\ o = "list" -> "LIST"
      [] pos = "cmd_w" /\ o = "mlsd" -> "MLSD"
      [] pos = "cmd_w" /\ o = "stor" -> "STOR"
      [] pos = "cmd_w" /\ o = "appe" -> "APPE"
      [] OTHER -> "NOOP"

\* what a server that follows the reply sequence answers to a command line
ServerReplies(c) ==
    CASE c \in {"RETR", "LIST", "MLSD", "STOR", "APPE"} -> {"150", "550"}
      [] c = "PASV" -> {"227", "500"}
      [] c = "SIZE" -> {"213", "550"}
      [] c = "REST" -> {"350", "501"}
      [] OTHER -> {"200", "500"}
\* ... and as the final reply of a transfer: done or aborted when the data
\* connection was there, 425 when it never came
FinalReplies(opened) == IF opened THEN {"226", "426"} ELSE {"425"}
\* a final reply the server has yet to send
Owed(k, opened) == [cmd |-> k, opened |-> opened]

\* response.expect([...]) of each position that reads a reply
ExpectedAt(pos) ==
    CASE pos = "type_r" -> "200"
      [] pos = "size_r" -> "213"
      [] pos = "rest_r" -> "350"
      [] pos = "pasv_r" -> "227"
      [] pos = "final_r" -> "226"
      [] pos = "cmd_r" /\ xop \in TransferOps -> "150"
      [] OTHER -> "200"

ReadPosOf(pos) ==
    CASE pos = "type_w" -> "type_r"
      [] pos = "size_w" -> "size_r"
      [] pos = "rest_w" -> "rest_r"
      [] pos = "pasv_w" -> "pasv_r"
      [] OTHER -> "cmd_r"

\* where a command goes on after the reply it expected
AfterReply(pos, o) ==
    CASE pos = "type_r" -> "size_w"
      [] pos = "size_r" /\ o = "rest_get" -> "local"
      [] pos = "rest_r" -> "cmd_w"
      [] pos = "cmd_r" /\ o \in TransferOps -> "pasv_w"
      [] pos = "pasv_r" -> "dconn"
      [] OTHER -> "return"

\* __size and __type are the helpers size and rest_get call; a helper
\* that took the session lock would be called with the lock held
HelperLocksAlways(helper) == TRUE
HelperLocks(helper) == FALSE

\* "finally: await data_connection.close()" has run when the generator of
\* the data channel is exhausted
ExhaustedStaysOpen == "open"
Exhausted == "closed"

Event(e) == Append(events, e)
XferRest == <<network_connection, connection_closed_evt, pc, op, data, orphans, count,
              ret, blk, wire, sent, in_buffer, lines, rpc, rcode, response, result,
              taken, sessVars, pasvVars, parseVars, enumVars, dreadVars>>

\* a public command is called: the decorator takes the session lock
XCall(o) ==
    /\ xpc = "idle"
    /\ calls < MaxCalls
    /\ ~locked
    /\ locked' = TRUE
    /\ xop' = o
    /\ calls' = calls + 1
    /\ xpc' = IF o \in {"size", "rest_get"} THEN "helper" ELSE "cmd_w"
    /\ events' = <<>>
    /\ dch' = "none"
    /\ chunks' = 0
    /\ xfer_no' = 0
    /\ xret' = "running"
    /\ UNCHANGED <<XferRest, passive, transport, replies, owed, cmd_no, got>>

\* size and rest_get call __size, which calls __type
XHelper ==
    /\ xpc = "helper"
    /\ xpc' = IF HelperLocks("__size") /\ locked THEN "blocked" ELSE "type_w"
    /\ UNCHANGED <<XferRest, passive, transport, locked, xop, replies, owed, cmd_no,
                   xfer_no, got, events, dch, calls, xret, chunks>>

\* the command returns, or its stream ends: the lock is released
XReturn(value) ==
    /\ xpc' = "idle"
    /\ xret' = value
    /\ locked' = FALSE

\* an exception inside __type is swallowed by __type and its result is not
\* looked at; anywhere else it ends the command with the error
XRaise(value) ==
    IF xpc \in {"type_w", "type_r"}
    THEN xpc' = "size_w" /\ UNCHANGED <<xret, locked>>
    ELSE XReturn(value)

\* network_connection.write of a command line; the server answers it
XWrite ==
    /\ xpc \in {"type_w", "size_w", "rest_w", "cmd_w"}
    /\ IF transport = "up"
       THEN /\ cmd_no' = cmd_no + 1
            /\ \E c \in ServerReplies(CommandAt(xpc, xop)) :
                 /\ replies' = Append(replies, [cmd |-> cmd_no + 1, code |-> c])
                 /\ owed' = IF c = "150" THEN owed \cup {Owed(cmd_no + 1, FALSE)} ELSE owed
            /\ xfer_no' = IF xpc = "cmd_w" /\ xop \in TransferOps THEN cmd_no + 1 ELSE xfer_no
            /\ events' = IF xpc = "cmd_w" /\ xop \in TransferOps THEN Event("command") ELSE events
            /\ xpc' = ReadPosOf(xpc)
            /\ UNCHANGED <<xret, locked>>
       ELSE /\ XRaise("write_error")
            /\ UNCHANGED <<cmd_no, replies, owed, xfer_no, events>>
    /\ UNCHANGED <<XferRest, passive, transport, xop, got, dch, calls, chunks>>

\* __read_data_channel / __write_data_channel: the passive check, then the
\* PASV line of __pasv
XPasvWrite ==
    /\ xpc = "pasv_w"
    /\ IF passive /\ transport = "up"
       THEN /\ cmd_no' = cmd_no + 1
            /\ \E c \in ServerReplies("PASV") :
                 replies' = Append(replies, [cmd |-> cmd_no + 1, code |-> c])
            /\ events' = Event("pasv")
            /\ xpc' = "pasv_r"
            /\ UNCHANGED <<xret, locked>>
       ELSE /\ XReturn(IF passive THEN "write_error" ELSE "active_mode")
            /\ UNCHANGED <<cmd_no, replies, events>>
    /\ UNCHANGED <<XferRest, passive, transport, xop, owed, xfer_no, got, dch, calls, chunks>>

\* the command whose reply a position reads
WantedAt(pos) == IF pos = "final_r" THEN xfer_no ELSE cmd_no

ReadEvent(pos) ==
    CASE pos = "cmd_r" /\ xop \in TransferOps -> Event("150")
      [] pos = "pasv_r" -> Event("227")
      [] pos = "final_r" -> Event("226")
      [] OTHER -> events

\* __read_response followed by response.expect: the oldest unread reply is
\* read, whatever command it answers
XRead ==
    /\ xpc \in {"type_r", "size_r", "rest_r", "cmd_r", "pasv_r", "final_r"}
    /\ \/ /\ transport = "up"
          /\ replies # <<>>
          /\ replies' = Tail(replies)
          /\ got' = [want |-> WantedAt(xpc), from |-> Head(replies).cmd]
          /\ IF Head(replies).code = ExpectedAt(xpc)
             THEN /\ events' = ReadEvent(xpc)
                  /\ IF AfterReply(xpc, xop) = "return"
                     THEN XReturn("ok")
                     ELSE xpc' = AfterReply(xpc, xop) /\ UNCHANGED <<xret, locked>>
             ELSE /\ XRaise("unexpected_reply")
                  /\ UNCHANGED events
       \/ /\ transport # "up"
          /\ XRaise("read_error")
          /\ UNCHANGED <<replies, got, events>>
    /\ UNCHANGED <<XferRest, passive, transport, xop, owed, cmd_no, xfer_no, dch, calls, chunks>>

\* rest_get: the local file is already complete, or REST is sent
XLocalFile ==
    /\ xpc = "local"
    /\ \/ XReturn("ok")
       \/ xpc' = "rest_w" /\ UNCHANGED <<xret, locked>>
    /\ UNCHANGED <<XferRest, passive, transport, xop, replies, owed, cmd_no, xfer_no, got,
                   events, dch, calls, chunks>>

\* client.connect() to the address of the 227 reply
XDataConnect ==
    /\ xpc = "dconn"
    /\ \/ /\ dch' = "open"
          /\ owed' = (owed \ {Owed(xfer_no, FALSE)}) \cup {Owed(xfer_no, TRUE)}
          /\ events' = Event("open")
          /\ xpc' = "xfer"
          /\ UNCHANGED <<xret, locked>>
       \/ /\ XReturn("connect_error")
          /\ UNCHANGED <<dch, owed, events>>
    /\ UNCHANGED <<XferRest, passive, transport, xop, replies, cmd_no, xfer_no, got,
                   calls, chunks>>

\* one chunk is read from or written to the data transport; a listing line
\* that mlsd cannot parse ends the stream with the error of the parser
XData ==
    /\ xpc = "xfer"
    /\ chunks < MaxChunks
    /\ \/ /\ chunks' = chunks + 1
          /\ events' = Event("data")
          /\ UNCHANGED <<xpc, xret, locked>>
       \/ /\ xop = "mlsd"
          /\ XReturn("parse_error")
          /\ UNCHANGED <<chunks, events>>
    /\ UNCHANGED <<XferRest, passive, transport, xop, replies, owed, cmd_no, xfer_no, got,
                   dch, calls>>

\* the data transport breaks: the generator of the data channel yields
\* the error and the command raises it
XDataError ==
    /\ xpc = "xfer"
    /\ XReturn("data_error")
    /\ UNCHANGED <<XferRest, passive, transport, xop, replies, owed, cmd_no, xfer_no, got,
                   events, dch, calls, chunks>>

\* the data is through (end-of-stream from the server, or the last chunk
\* written): the generator of the data channel ends and its finally clause
\* closes the data transport
XDataEnd ==
    /\ xpc = "xfer"
    /\ dch' = Exhausted
    /\ events' = Event("close")
    /\ xpc' = "final_r"
    /\ UNCHANGED <<XferRest, passive, transport, locked, xop, replies, owed, cmd_no, xfer_no,
                   got, calls, xret, chunks>>

\* the server sends the final reply of transfer command k: when it is
\* done with the data connection, or when the client is no longer in that
\* transfer
ServerFinishes(k) ==
    /\ transport = "up"
    /\ \E o \in owed :
         /\ o.cmd = k
         /\ o.opened \/ k # xfer_no \/ xpc = "idle"
         /\ owed' = owed \ {o}
         /\ \E c \in FinalReplies(o.opened) :
              replies' = Append(replies, [cmd |-> k, code |-> c])
    /\ UNCHANGED <<XferRest, passive, transport, locked, xpc, xop, cmd_no, xfer_no, got,
                   events, dch, calls, xret, chunks>>

\* the control transport breaks; what was not read is lost
XTransportEnds ==
    /\ transport = "up"
    /\ calls > 0
    /\ transport' = "reset"
    /\ replies' = <<>>
    /\ owed' = {}
    /\ UNCHANGED <<XferRest, passive, locked, xpc, xop, cmd_no, xfer_no, got, events, dch,
                   calls, xret, chunks>>

InitTransfer ==
    /\ network_connection = "open"
    /\ connection_closed_evt = FALSE
    /\ locked = FALSE
    /\ passive \in BOOLEAN
    /\ pc = [t \in Tasks |-> "idle"]
    /\ op = [t \in Tasks |-> "cmd"]
    /\ data = [t \in Tasks |-> "none"]
    /\ orphans = 0
    /\ count = [t \in Tasks |-> 0]
    /\ ret = [t \in Tasks |-> NoRet]
    /\ blk = [t \in Tasks |-> NoBlk]
    /\ InitReaderIdle
    /\ SessIdle
    /\ PasvIdle
    /\ ParseIdle
    /\ EnumIdle
    /\ DReadIdle
    /\ XferIdle

NextTransfer ==
    \/ \E o \in PublicOps : XCall(o)
    \/ XHelper
    \/ XWrite
    \/ XPasvWrite
    \/ XRead
    \/ XLocalFile
    \/ XDataConnect
    \/ XData
    \/ XDataError
    \/ XDataEnd
    \/ \E k \in 1..(4 * MaxCalls) : ServerFinishes(k)
    \/ XTransportEnds

SpecTransfer == InitTransfer /\ [][NextTransfer]_vars

\* ====================================================================
\* __read_data_channel(line_based=True) on its own: the bytes of a listing
\* arrive in chunks of any size, the loop cuts the local buffer at every
\* LF, and the transport reaches end-of-stream when all bytes are through.
\* ====================================================================
MaxStream == 4
DataBytes == {"a", "CR", "LF"}
DataWires == UNION {[1..n -> DataBytes] : n \in 0..MaxStream}

\* the loop with "if" in the place of "while True": one cut per chunk
line_loop_once(buf) ==
    LET m == Find(buf, "LF") IN
    IF m = 0 THEN [buf |-> buf, out |-> <<>>]
    ELSE [buf |-> SubSeq(buf, m + 1, Len(buf)), out |-> <<SubSeq(buf, 1, m - 1)>>]

\* while True: m = buffer.find(b"\n"); if m == -1: break;
\* temp = buffer[:m]; buffer = buffer[m+1:]; yield temp, None
RECURSIVE line_loop(_)
line_loop(buf) ==
    LET m == Find(buf, "LF") IN
    IF m = 0 THEN [buf |-> buf, out |-> <<>>]
    ELSE LET rest == line_loop(SubSeq(buf, m + 1, Len(buf)))
         IN [buf |-> rest.buf, out |-> <<SubSeq(buf, 1, m - 1)>> \o rest.out]

DReadRest == <<connVars, readerVars, sessVars, pasvVars, parseVars, enumVars, xferVars>>

\* "async for data in data_connection.read()": the next n bytes arrive as
\* one chunk; buffer += data, then the loop
DataChunk(n) ==
    /\ ~deof
    /\ dsent + n <= Len(dwire)
    /\ LET r == line_loop(buffer \o SubSeq(dwire, dsent + 1, dsent + n)) IN
         /\ buffer' = r.buf
         /\ yielded' = yielded \o r.out
    /\ dsent' = dsent + n
    /\ UNCHANGED <<DReadRest, dwire, deof>>

\* the server has sent everything and closes: the read loop ends, and the
\* generator ends without looking at the buffer
DataEof ==
    /\ ~deof
    /\ dsent = Len(dwire)
    /\ deof' = TRUE
    /\ UNCHANGED <<DReadRest, dwire, dsent, buffer, yielded>>

InitDataRead ==
    /\ ConnIdle
    /\ InitReaderIdle
    /\ SessIdle
    /\ PasvIdle
    /\ ParseIdle
    /\ EnumIdle
    /\ XferIdle
    /\ dwire \in DataWires
    /\ dsent = 0
    /\ buffer = <<>>
    /\ yielded = <<>>
    /\ deof = FALSE

NextDataRead ==
    \/ \E n \in 1..MaxStream : DataChunk(n)
    \/ DataEof

SpecDataRead == InitDataRead /\ [][NextDataRead]_vars

\* ================================================================ claims
Decorated == LockedCmds \cup LockedIters

\* positions inside "async with self.__lock" of a decorated operation
CriticalPcs == {"w1", "r1", "w2", "r2", "pasv_w", "pasv_r", "dconn", "xfer",
                "yielded", "yielded_err"}

InCritical(t) == op[t] \in Decorated /\ pc[t] \in CriticalPcs

\* a command has been written and its reply has not been read yet
Outstanding(t) == pc[t] \in {"r1", "r2", "pasv_r", "l_user_r", "l_pass_r", "d_quit_r"}

\* the operation has handed its result, or its terminal error, to the caller
Completed(t) == ret[t].outcome \in {"ok", "err"}

\* C1: among any number of concurrent callers of lock-decorated operations,
\* at most one is inside its critical section (its command lines, PASV
\* exchange, data transfer and reply reads) at any time.
C1_MutualExclusion == Cardinality({t \in Tasks : InCritical(t)}) <= 1

\* a transfer is running while another caller waits for the lock
C1_Witness ==
    \E t, u \in Tasks : t # u /\ InCritical(t) /\ pc[t] = "xfer" /\ pc[u] = "acquire"

\* C2 (as claimed): every operation that uses the control channel, connect(),
\* login() and disconnect() included, runs under the session lock, so at most
\* one request/response cycle is outstanding in every reachable state.
C2_OneCycleOutstanding == Cardinality({t \in Tasks : Outstanding(t)}) <= 1

\* C3: from the moment a streaming operation starts producing until it is
\* fully consumed or closed, the session lock is held; it is not released
\* between two yielded items.
C3_LockHeldWhileStreaming ==
    \A t \in Tasks : (op[t] \in LockedIters /\ pc[t] \in CriticalPcs) => locked

\* a stream has been resumed after its first item while another caller waits
C3_Witness ==
    \E t, u \in Tasks : /\ t # u
                        /\ op[t] \in LockedIters /\ pc[t] = "xfer" /\ count[t] >= 1
                        /\ pc[u] = "acquire"

\* C4 (as claimed): while a stream that was obtained is neither drained nor
\* closed, no command issued after it was left completes.
C4_LeftStreamBlocks ==
    \A t \in Tasks : (op[t] \in Decorated /\ Completed(t)) =>
        \A s \in Tasks : blk[t][s] = "-"

\* C4 (amended): while a stream that has started producing stays suspended at
\* a yielded item or at its yielded error, no lock-decorated command issued
\* after it was left enters its critical section or completes.
C4_SuspendedStreamBlocks ==
    \A t \in Tasks : (op[t] \in Decorated /\ (InCritical(t) \/ Completed(t))) =>
        \A s \in Tasks : blk[t][s] # "suspended"

\* a command waits for the lock behind a stream that was left suspended
C4_Witness ==
    \E t, s \in Tasks : /\ op[t] \in LockedCmds /\ pc[t] = "acquire"
                        /\ blk[t][s] = "suspended" /\ pc[s] = "yielded"

\* C5 (as claimed): when the caller closes a partially consumed list / mlsd /
\* get_file, the lock is free and the data transport is closed by the time the
\* close completes.
C5_CloseReleasesLockAndData ==
    \A t \in Tasks : (ret[t].outcome = "closed" /\ ret[t].path = "cancel") =>
        (ret[t].lockfree /\ ret[t].data # "open")

\* C6 (as claimed): on success, on a listing line that fails to parse and on a
\* data-transport error, the data transport the operation opened is closed
\* when the operation returns its result or yields its terminal error.
C6_DataClosedAtReturn ==
    \A t \in Tasks : (op[t] \in DataOps /\ Completed(t)) => ret[t].data # "open"

\* ------------------------------------------------------- reply reader
Digits == {"0", "1", "2", "3", "4", "5", "6", "7", "8", "9"}

IsCode(c) == Len(c) = 3 /\ \A i \in 1..3 : c[i] \in Digits

\* the reader has returned, and it returned because of a line it read
ReturnedOnLine == rpc = "done" /\ result.last = "line"

\* C7 (as claimed): for every single-line reply "<code> <text>" the reader
\* returns code <code> and messages exactly [<text>], and takes one line.
C7_SingleLineExact ==
    \A c \in Codes, x \in Texts, tl \in Tails :
        (wire = Single(c, x) \o tl /\ ReturnedOnLine) =>
            /\ result.kind = "reply"
            /\ result.code = c
            /\ result.messages = <<x>>
            /\ taken = 1

\* C7 (amended): for every single-line reply "<code> <text>" the reader
\* returns code <code> and one message, <text> without the whitespace at its
\* two ends (so <text> itself when it neither starts nor ends with
\* whitespace), and takes exactly that one line.
C7_SingleLineStripped ==
    \A c \in Codes, x \in Texts, tl \in Tails :
        (wire = Single(c, x) \o tl /\ ReturnedOnLine) =>
            /\ result.kind = "reply"
            /\ result.code = c
            /\ result.messages = <<Strip(x)>>
            /\ taken = 1

\* a reply whose text starts with a space has been read, and the line that
\* followed it on the wire has been framed and is still there
C7_Witness ==
    /\ ReturnedOnLine
    /\ \E c \in Codes, x \in Texts, tl \in Tails :
          /\ wire = Single(c, x) \o tl
          /\ x # <<>> /\ Head(x) = "SP" /\ Strip(x) # <<>>
          /\ result.messages = <<Strip(x)>>
          /\ tl # <<>>
    /\ sent = Len(wire)
    /\ Len(lines) = 1

\* C8 (as claimed): for every multi-line reply "<code>-a\r\nb\r\n<code> c\r\n"
\* the reader returns code <code> and messages exactly [a, b, c], none of
\* them holding a line-terminator byte.
C8_MultiLineExact ==
    \A c \in Codes, a \in TrimmedTexts, b \in TrimmedTexts, d \in TrimmedTexts,
       tl \in Tails :
        (wire = Multi(c, a, b, d) \o tl /\ ReturnedOnLine) =>
            /\ result.kind = "reply"
            /\ result.code = c
            /\ result.messages = <<a, b, d>>
            /\ \A i \in 1..Len(result.messages) :
                   \A j \in 1..Len(result.messages[i]) :
                       result.messages[i][j] \notin {"CR", "LF"}

\* C9 (as claimed): when the transport yields no next line before the reply
\* is complete, the reader reports a read failure and returns no reply.
C9_NoLineIsFailure ==
    (rpc = "done" /\ result.last = "None") => result.kind = "error"

\* C10 (as claimed): every reply the reader returns without error has a code
\* of exactly three digits and at least one message.
C10_ReplyWellFormed ==
    (rpc = "done" /\ result.kind = "reply") =>
        (IsCode(result.code) /\ Len(result.messages) >= 1)

\* ------------------------------------------ connect / login / disconnect
\* C11 (as claimed): for every reply and every expected set, expect succeeds
\* when the code is in the set; for a code outside the set it raises the
\* response error with code and messages when the first digit is 5, and
\* otherwise the expectation error with code, messages and the expected set.
C11_ExpectContract ==
    expected.code # Unread =>
        LET c == expected.code
            five == c # NoCode /\ c[1] = "5"
        IN /\ c \in expected.expect => raised = NoError
           /\ (c \notin expected.expect /\ five) =>
                  raised = Error("FTPResponseException", c, expected.messages, {})
           /\ (c \notin expected.expect /\ ~five) =>
                  raised = Error("FTPResponseExpectationException", c,
                                 expected.messages, expected.expect)

\* connect() has gone on to login(), or login() has returned inside it
InLogin == spc \in {"l_begin", "l_user_r", "l_pass_w", "l_pass_r"}
ConnectReturned == sop = "connect" /\ spc = "idle" /\ sret.outcome # "none"

\* C12 (as claimed): connect() returns success, or goes on to login, only
\* after a final greeting reply whose code is 220, 230 or 232 - also when the
\* server sends 1xx replies until the greeting loop is used up.
C12_FinalGreetingFirst ==
    (sop = "connect" /\ (InLogin \/ (ConnectReturned /\ sret.outcome = "ok"))) =>
        greeting \in {C220, C230, C232}

\* C13: when the greeting is 230 or 232, or it is accepted and nologin was
\* asked for, connect() returns success at once and has written no command.
C13_NoLoginWhenAuthenticated ==
    (sop = "connect" /\ greeting \in {C220, C230, C232}
                     /\ (nologin \/ greeting \in {C230, C232})) =>
        /\ ConnectReturned
        /\ sret.outcome = "ok"
        /\ written = <<>>

C13_Witness ==
    ConnectReturned /\ ~nologin /\ greeting = C230 /\ sret.outcome = "ok"

\* C14 (as claimed): whenever connect() returns an error, disconnect() has
\* run before: the control transport is closed and none is left open.
C14_ConnectErrorDisconnected ==
    (ConnectReturned /\ sret.outcome = "err") =>
        (network_connection = "none" /\ transports = 0)

\* login() has run to its end (called by the caller or by connect())
LoginOver ==
    /\ spc = "idle"
    /\ sret.outcome # "none"
    /\ sop = "login" \/ (sop = "connect" /\ written # <<>> /\ written[1] = "USER")

\* C15: for both credential kinds USER is written first, PASS only after a
\* 331 reply to USER; login succeeds exactly when USER was answered with 331
\* and PASS with 230; a 332 reply to USER ends it without PASS and without
\* success.
C15_LoginSequence ==
    /\ (\E i \in 1..Len(written) : written[i] = "PASS") =>
           (written = <<"USER", "PASS">> /\ user_reply = C331)
    /\ LoginOver => (sret.outcome = "ok" <=> (user_reply = C331 /\ pass_reply = C230))
    /\ user_reply = C332 =>
           (written = <<"USER">> /\ spc = "idle" /\ sret.outcome = "err")

C15_Witness ==
    /\ sop = "login" /\ spc = "idle"
    /\ stype = "NONE"
    /\ written = <<"USER", "PASS">>
    /\ user_reply = C331 /\ pass_reply = C230
    /\ sret.outcome = "ok"

\* C16 (as claimed): when the login ends because the server answered USER
\* with a code other than 331, or PASS with a code other than 230, the error
\* returned is the authentication error with the server's code and messages.
C16_AuthenticationError ==
    (LoginOver /\ (user_reply \in ReplyCodes \ {C331}
                   \/ pass_reply \in ReplyCodes \ {C230})) =>
        /\ sret.outcome = "err"
        /\ sret.error.type = "FTPAuthenticationException"
        /\ sret.error.code = (IF pass_reply = Unread THEN user_reply ELSE pass_reply)

\* C17: with a credential kind that is neither NONE nor PASSWORD login()
\* writes no command and returns an error that is not the authentication
\* error.
C17_UnsupportedCredential ==
    stype \notin {"NONE", "PASSWORD"} =>
        /\ \A i \in 1..Len(written) : written[i] \notin {"USER", "PASS"}
        /\ spc \notin {"l_user_r", "l_pass_w", "l_pass_r"}
        /\ (sop = "login" /\ spc = "idle" /\ sret.outcome # "none") =>
               /\ sret.outcome = "err"
               /\ sret.error.type = "Exception"
               /\ written = <<>>

C17_Witness ==
    /\ stype = "NT"
    /\ sop = "login" /\ spc = "idle"
    /\ sret.outcome = "err" /\ sret.error = UnsupportedError

DisconnectReturned == sop = "disconnect" /\ spc = "idle" /\ sret.outcome # "none"

\* C18: disconnect() on a session that is already disconnected does not
\* raise, writes no QUIT, closes no transport and leaves the session,
\* the closed event included, as it was.
C18_DisconnectIdempotent ==
    (DisconnectReturned /\ pre.network_connection = "none") =>
        /\ sret.outcome = "ok"
        /\ written = <<>>
        /\ transports = pre.transports
        /\ network_connection = "none"
        /\ connection_closed_evt = pre.connection_closed_evt

\* the second of two disconnect() in a row: the first one has set the event
C18_Witness ==
    /\ DisconnectReturned
    /\ pre.network_connection = "none"
    /\ pre.connection_closed_evt
    /\ sret.outcome = "ok"

\* C19 (as claimed): disconnect() on a connected session always ends with
\* the transport closed and the closed event set, also when the server never
\* answers QUIT or the write of QUIT fails.
C19_DisconnectCompletes ==
    (spc = "d_begin" /\ network_connection = "open")
        ~> (network_connection = "none" /\ connection_closed_evt)

\* C20 (as claimed): in every reachable state in which the closed event is
\* set, the control transport is closed and the session does not refer to it.
C20_ClosedEventMeansClosed ==
    connection_closed_evt => network_connection = "none"

\* C21 (as claimed): for any sequence of connect() and disconnect() calls the
\* session owns at most one open control transport: a connect() on a session
\* whose transport is open leaves no earlier transport open and unreferenced.
C21_OneControlTransport == transports <= 1

\* C26 (as claimed): every public operation is a failure boundary: whatever
\* fails, and in whatever state the session is, the operation hands an
\* error value to its caller and no fault propagates out of it.
C26_NoFaultPropagates == \A t \in Tasks : ret[t].outcome # "raised"

\* C22: when the target's passive flag is false the data channel manager
\* fails as its first step: no PASV is written, no data transport is opened,
\* and an operation that got as far as the data channel returns (or yields)
\* the error of the refused mode.
C22_ActiveModeRefused ==
    ~passive =>
        /\ orphans = 0
        /\ \A t \in Tasks :
              /\ pc[t] \notin {"pasv_r", "dconn", "xfer"}
              /\ data[t] = "none"
              /\ (op[t] \in DataOps /\ Completed(t)) =>
                     /\ ret[t].outcome = "err"
                     /\ ret[t].path \in {"write", "reply", "active"}

C22_Witness ==
    /\ ~passive
    /\ \E t \in Tasks : /\ op[t] \in DataOps
                         /\ ret[t].outcome = "err"
                         /\ ret[t].path = "active"

\* C27: a streaming command ends its sequence at the first error: the item
\* that carries the error carries no data, and after it the stream yields
\* nothing more - it can only end or be closed.
C27_StreamEndsAtFirstError ==
    /\ [](\A t \in Tasks : pc[t] = "yielded_err" =>
              (op[t] \in LockedIters /\ ret[t].outcome = "err"))
    /\ [][\A t \in Tasks : pc[t] = "yielded_err" =>
              pc'[t] \in {"yielded_err", "idle"}]_vars

\* the error comes after an item has been yielded
C27_Witness ==
    \E t \in Tasks : pc[t] = "yielded_err" /\ op[t] \in {"list", "mlsd"} /\ count[t] >= 1

\* ------------------------------------------------------------- PASV
PasvReturned == pasv_reply # NoPasvReply
HasGroup(m) == ReSearch(m).found

\* C23 (as claimed): when a 227 reply to PASV has no parenthesized group,
\* the exchange fails with the command error that names PASV and carries the
\* code and the messages of the reply, and no data target is derived.
C23_NoGroupIsCommandError ==
    (PasvReturned /\ pasv_reply.code = C227 /\ ~HasGroup(pasv_reply.messages[1])) =>
        /\ pasv_ret.err = FTPCommandException("PASV", pasv_reply.code, pasv_reply.messages)
        /\ pasv_ret.target = NoTarget

\* C24 (as claimed): for every 227 reply whose first message contains a
\* parenthesized tuple (a,b,c,d,p1,p2) of byte values, the derived target has
\* the address a.b.c.d and the port p1*256 + p2.
C24_TupleGivesTarget ==
    \A x \in Prefixes, q \in Quads, p \in PortPairs, y \in Suffixes :
        (pasv_reply.code = C227 /\ pasv_reply.messages = <<TupleMessage(x, q, p, y)>>) =>
            /\ pasv_ret.err = NoError
            /\ pasv_ret.target.ip = Dotted(q)
            /\ pasv_ret.target.port = p[1] * 256 + p[2]

\* C25: deriving a data target never changes the control target, and the
\* derived target is a new object: its proxy chain is a copy of the control
\* target's, its passive flag, hostname and timeout are the defaults of the
\* constructor and not the control target's.
C25_ControlTargetUntouched ==
    /\ [][target' = target]_vars
    /\ []((PasvReturned /\ pasv_ret.err = NoError) =>
             /\ pasv_ret.target.proxies.chain = target.proxies.chain
             /\ pasv_ret.target.proxies.id # target.proxies.id
             /\ pasv_ret.target.passive = TRUE
             /\ pasv_ret.target.hostname = "none"
             /\ pasv_ret.target.timeout = DefaultTimeout)

\* a control target none of whose fields is the default
C25_Witness ==
    /\ PasvReturned
    /\ pasv_ret.err = NoError
    /\ ~target.passive
    /\ target.hostname = "h"
    /\ target.timeout # DefaultTimeout
    /\ target.proxies.chain # <<>>

\* ---------------------------------------------------------------- listing
HasKey(facts, k) == \E i \in 1..Len(facts) : facts[i][1] = k
FactKeys(facts) == {facts[i][1] : i \in 1..Len(facts)}
ContainsStr(s, sep) == FindStrFrom(s, sep, 1) # 0
ParseDone == entry # NoEntry

\* C28: every line "facts; name" is split once, at the first "; ": the
\* entry is returned, its name is everything right of that "; " (also when
\* the name has a "; " in it) and its facts are those left of it
C28_SplitOnceAtFirstSeparator ==
    \A facts \in FactLists, n \in Names, w \in Pads :
        (mlsd_line = Line(facts, n, w) /\ ParseDone) =>
            /\ entry.kind = "entry"
            /\ entry.fields[<<"name">>] = PyStr(n)
            /\ DOMAIN entry.fields =
                   {<<"name">>, <<"fullpath">>, <<"size">>} \cup FactKeys(facts)

\* the size the line states: the number of its size fact, 0 without one
StatedSize(facts) ==
    IF HasKey(facts, <<"size">>)
    THEN DigitsValue(facts[CHOOSE i \in 1..Len(facts) : facts[i][1] = <<"size">>][2])
    ELSE 0

Line1234 ==
    Line(<<Fact(<<"size">>, <<"1", "2", "3", "4">>), Fact(<<"modify">>, Modify2024),
           Fact(<<"type">>, <<"file">>)>>, ReportTxt, <<>>)

\* C29: the entry parsed from a line "facts; name" has the size of the size
\* fact as an int, or 0 when there is no size fact, and the absence of a size
\* fact raises nothing; every fact other than modify and size has its raw
\* string; fullpath is basepath joined with the name.  The line
\* "size=1234;modify=20240101120000;type=file; report.txt" with base /data
\* gives name report.txt, fullpath /data/report.txt, size 1234, modify
\* 2024-01-01 12:00:00, type file.
C29_EntryFields ==
    /\ \A facts \in FactLists, n \in Names, w \in Pads :
          (mlsd_line = Line(facts, n, w) /\ ParseDone) =>
              /\ entry.kind = "entry" =>
                    /\ entry.fields[<<"size">>] = PyIntValue(StatedSize(facts))
                    /\ \A i \in 1..Len(facts) :
                          facts[i][1] \notin {<<"modify">>, <<"size">>} =>
                              entry.fields[facts[i][1]] = PyStr(facts[i][2])
                    /\ entry.fields[<<"fullpath">>] = PyStr(os_path_join(basepath, n))
              /\ (~HasKey(facts, <<"size">>) /\ ~ContainsStr(n, <<";", "SP">>)) =>
                    entry.kind = "entry"
    /\ (mlsd_line = Line1234 /\ basepath = SlashData /\ ParseDone) =>
          entry = Parsed(
              (<<"name">> :> PyStr(ReportTxt))
              @@ (<<"fullpath">> :> PyStr(<<"/", "data", "/", "report", ".", "txt">>))
              @@ (<<"size">> :> PyIntValue(1234))
              @@ (<<"modify">> :> DateTime(2024, 1, 1, 12, 0, 0))
              @@ (<<"type">> :> PyStr(<<"file">>)))

\* a line with a type and a perm fact and no size fact was parsed with base
\* path /data: size 0
C29_Witness ==
    /\ mlsd_line = Line(<<Fact(<<"type">>, <<"file">>), Fact(<<"perm">>, <<"el">>)>>,
                        <<"a">>, <<>>)
    /\ basepath = SlashData
    /\ entry.kind = "entry"
    /\ entry.fields[<<"size">>] = PyIntValue(0)

\* ------------------------------------------------------------ enumeration
IsEntry(i) == enum_out[i].entry # NoEntry
FullPath(i) == enum_out[i].entry.fields[<<"fullpath">>].str
\* the directory an yielded entry lies in, as the names that lead to it
DirOf(i) == SubSeq(PathKey(FullPath(i)), 1, Len(PathKey(FullPath(i))) - 1)
IsProperPrefix(a, b) == Len(a) < Len(b) /\ SubSeq(b, 1, Len(a)) = a
\* the place of the name x in the listing of the directory d
PlaceIn(d, x) == CHOOSE i \in 1..Len(TreeListing(fs, d)) : TreeListing(fs, d)[i].name = <<x>>
Accepted(item) ==
    ~(enum_args.filter_cb = "skip_dir2" /\ item.name = <<"dir2">>)
YieldedPaths == [i \in 1..Len(enum_out) |-> FullPath(i)]

\* C30: no entry of a directory is yielded after an entry from below one of
\* its subdirectories, and when an entry from below a directory is yielded
\* with no error before it, every accepted entry of that directory has been
\* yielded; entries from below two subdirectories of one directory come in
\* the order the two have in its listing; the tree / {a.txt, dir1/ {b.txt}}
\* gives a.txt, dir1, dir1/b.txt with depth 3 and a.txt, dir1 with depth 0
C30_DirectoryBeforeSubdirectories ==
    /\ \A j, k \in 1..Len(enum_out) :
          (j < k /\ IsEntry(j) /\ IsEntry(k)) =>
              /\ ~IsProperPrefix(DirOf(k), DirOf(j))
              /\ \A n \in 0..Len(DirOf(j)) :
                    (/\ n < Len(DirOf(j))
                     /\ n < Len(DirOf(k))
                     /\ SubSeq(DirOf(j), 1, n) = SubSeq(DirOf(k), 1, n)
                     /\ DirOf(j)[n + 1] # DirOf(k)[n + 1]) =>
                        PlaceIn(SubSeq(DirOf(j), 1, n), DirOf(j)[n + 1])
                            < PlaceIn(SubSeq(DirOf(j), 1, n), DirOf(k)[n + 1])
    /\ \A j \in 1..Len(enum_out) :
          (\A i \in 1..j : IsEntry(i)) =>
              \A n \in 0..Len(DirOf(j)) :
                  n < Len(DirOf(j)) =>
                      \A x \in 1..Len(TreeListing(fs, SubSeq(DirOf(j), 1, n))) :
                          Accepted(TreeListing(fs, SubSeq(DirOf(j), 1, n))[x]) =>
                              \E i \in 1..(j - 1) :
                                  PathKey(FullPath(i)) =
                                      Append(SubSeq(DirOf(j), 1, n),
                                             TreeListing(fs, SubSeq(DirOf(j), 1, n))[x].name[1])
    /\ (/\ fs = Tree1
        /\ enum_args.path = <<>>
        /\ EnumDone
        /\ \A i \in 1..Len(enum_out) : IsEntry(i)) =>
          /\ enum_args.depth = 3 =>
                YieldedPaths = << <<"a.txt">>, <<"dir1">>, <<"dir1", "/", "b.txt">> >>
          /\ enum_args.depth = 0 => YieldedPaths = << <<"a.txt">>, <<"dir1">> >>

\* the tree with two subdirectories was enumerated to the end with depth 3
\* and no error: its seven entries have been yielded
C30_Witness ==
    /\ fs = Tree2
    /\ enum_args.depth = 3
    /\ enum_args.filter_cb = "none"
    /\ EnumDone
    /\ Len(enum_out) = 7
    /\ \A i \in 1..Len(enum_out) : IsEntry(i)

\* the level of a path below the start path of the enumeration
Level(p) == Len(PathKey(p)) - Len(PathKey(enum_args.path))

\* C31: mlsd is called only for directories at most depth levels below the
\* start path and no entry of a deeper directory is yielded; with depth 0
\* mlsd is called once, for the start path, and nothing is pending
C31_DepthBounded ==
    /\ \A i \in 1..Len(mlsd_log) : Level(mlsd_log[i]) <= enum_args.depth
    /\ \A i \in 1..Len(enum_out) : IsEntry(i) => Len(DirOf(i)) <= enum_args.depth
    /\ (EnumStarted /\ enum_args.depth = 0) =>
          /\ mlsd_log = <<enum_args.path>>
          /\ Len(frames) <= 1
          /\ \A i \in 1..Len(frames) : frames[i].dirs = <<>>

\* the endless tree was enumerated with depth 1: two listings, four entries
C31_Witness ==
    /\ fs = Tree4
    /\ enum_args.depth = 1
    /\ EnumDone
    /\ Len(mlsd_log) = 2
    /\ Len(enum_out) = 4
    /\ \A i \in 1..Len(enum_out) : IsEntry(i)

IsPrefix(a, b) == Len(a) <= Len(b) /\ SubSeq(b, 1, Len(a)) = a
YieldsOf(e) == {i \in 1..Len(enum_out) : enum_out[i].entry = e}

\* C32: an entry for which filter_cb returned False is not yielded, and
\* mlsd is never called for it or for anything below it; an entry for
\* which it returned True is yielded once; no entry is yielded twice
C32_FilterObeyed ==
    /\ \A c \in 1..Len(filter_calls) :
          IF filter_calls[c].res
          THEN Cardinality(YieldsOf(filter_calls[c].entry)) = 1
          ELSE /\ YieldsOf(filter_calls[c].entry) = {}
               /\ \A i \in 1..Len(mlsd_log) :
                     ~IsPrefix(PathKey(filter_calls[c].entry.fields[<<"fullpath">>].str),
                               PathKey(mlsd_log[i]))
    /\ \A i, j \in 1..Len(enum_out) :
          (i < j /\ IsEntry(i)) => enum_out[i].entry # enum_out[j].entry

\* the tree with dir2 was enumerated to the end with the filter that
\* rejects dir2: six calls of the filter, five entries
C32_Witness ==
    /\ fs = Tree2
    /\ enum_args.filter_cb = "skip_dir2"
    /\ enum_args.depth = 3
    /\ EnumDone
    /\ Len(filter_calls) = 6
    /\ Len(enum_out) = 5
    /\ \A i \in 1..Len(enum_out) : IsEntry(i)

\* the errors the caller got with a null entry, KeyError (no listing
\* error) left out
ErrorItems ==
    SelectSeq(enum_out, LAMBDA o : o.entry = NoEntry /\ o.err # NoError /\ o.err # KeyError)

\* C33: every error an mlsd stream of the enumeration ended with, at the
\* start path or below it, has been yielded to the caller as (None, error)
C33_ListingErrorsYielded ==
    [i \in 1..Len(ErrorItems) |-> ErrorItems[i].err] = enum_errs

\* C34: the enumeration ends, and mlsd is never called for a subdirectory
\* while an mlsd stream of the enumeration still holds the session lock
C34_TerminatesWithoutOwnLock ==
    /\ <>EnumDone
    /\ [](\A i \in 1..Len(frames) : frames[i].phase = "call" => stream = "none")

\* ------------------------------------------------------------ line framer
Received == SubSeq(wire, 1, sent)
\* the segments of the bytes received that end at an LF, and what follows
\* the last LF
Segments == SubSeq(Split(Received, "LF"), 1, Len(Split(Received, "LF")) - 1)
Remainder == Split(Received, "LF")[Len(Split(Received, "LF"))]

C36_NoReplyLeftUnread ==
    /\ (xpc = "idle" /\ transport = "up") => replies = <<>>
    /\ got.want = got.from

\* C37: what a transfer or listing operation does on the two channels is a
\* prefix of: command written, 150 read, PASV written, 227 read, data
\* transport opened, data moved, data transport closed, 226 read; a
\* transfer that returns without an error has done all of it, and the 226
\* is read with the data transport closed
TransferOrder(n) ==
    <<"command", "150", "pasv", "227", "open">> \o [i \in 1..n |-> "data"]
        \o <<"close", "226">>
Transferred == xpc = "idle" /\ xop \in TransferOps /\ xret = "ok" /\ events # <<>>
C37_TransferOrder ==
    /\ \E n \in 0..MaxChunks : IsPrefix(events, TransferOrder(n))
    /\ Transferred => events = TransferOrder(chunks)
    /\ (events # <<>> /\ events[Len(events)] = "226") => dch = "closed"

\* a store of one chunk has gone through all the steps
C37_Witness == Transferred /\ xop = "stor" /\ chunks = 1 /\ dch = "closed"

\* C39: when a command that is not a stream has returned, whatever it
\* returned, the session lock is free, and a command never waits for the
\* lock it holds itself
C39_LockFreeAtReturn ==
    /\ (xpc = "idle" /\ xop \notin StreamOps) => ~locked
    /\ xpc # "blocked"
    /\ xpc \notin {"idle", "blocked"} => locked

\* rest_get has called __size with the lock held, started the transfer and
\* returned the error of the data channel
C39_Witness ==
    /\ xpc = "idle"
    /\ xop = "rest_get"
    /\ xret = "data_error"
    /\ ~locked

\* the bytes of the listing that have arrived on the data transport
DReceived == SubSeq(dwire, 1, dsent)
LFs == {i \in 1..dsent : dwire[i] = "LF"}

\* C40: however the bytes arrive, the items yielded are one per LF
\* received, namely the segments that end at an LF, in order; the bytes
\* after the last LF stay in the buffer, also at end-of-stream, and are
\* never yielded
C40_OneItemPerNewline ==
    /\ Len(yielded) = Cardinality(LFs)
    /\ yielded = SubSeq(Split(DReceived, "LF"), 1, Len(Split(DReceived, "LF")) - 1)
    /\ buffer = Split(DReceived, "LF")[Len(Split(DReceived, "LF"))]

\* end-of-stream after two lines and the start of a third that has no LF
C40_Witness ==
    /\ deof
    /\ Len(yielded) = 2
    /\ buffer = <<"a">>

\* the lines the server sends in this exchange, as the framer cuts them
AllLines == SubSeq(Split(wire, "LF"), 1, Len(Split(wire, "LF")) - 1)
\* the lines after the first that begin with the code and a space
Terminals(code) == {k \in 2..Len(AllLines) : StartsWith(AllLines[k], code \o <<"SP">>)}
FirstTerminal(code) == CHOOSE k \in Terminals(code) : \A j \in Terminals(code) : k <= j

====
